---- MODULE Spec2Model ----
(***************************************************************************)
(* State-machine model of the SmartWatt backend (youssefibrahim146/Volt):  *)
(* the relational store (User, admin, systemDevice, userHomeDevice), the   *)
(* uploaded image files, the bearer tokens, and the Express handlers that  *)
(* act on them.  A handler is split at its awaits: every step is one       *)
(* storage statement together with the synchronous code around it, so two  *)
(* requests interleave exactly where the Node event loop lets them.        *)
(*                                                                         *)
(* Money is counted in units of 1/100000 of a currency unit and the rate   *)
(* per kWh in hundredths, so that watts * hours / 1000 * rate is the       *)
(* integer watts * hours * rate100 (exact arithmetic in place of doubles). *)
(***************************************************************************)
EXTENDS Integers, Sequences, FiniteSets, TLC

VARIABLES users, admins, catalog, assignments, files, seqs, issued, reqs, conflict

dbVars == <<users, admins, catalog, assignments, files, seqs, issued>>
vars == <<users, admins, catalog, assignments, files, seqs, issued, reqs, conflict>>

\* ------------------------------------------------------------------ bounds

\* assignment rows ever created (the userHomeDevice id sequence is never reused)
MaxAssignments == 2
\* catalog rows ever created
MaxDevices == 3
\* User rows and admin rows ever created
MaxUsers == 3
MaxAdmins == 2
\* image files ever uploaded
MaxFiles == 3

\* the two request slots: two requests may be in flight at once
Slots == {"r1", "r2"}

\* ------------------------------------------------------------- pure helpers

\* calculateDeviceCost's default rate, 0.68 per kWh, in hundredths
DefaultCostPerKWh == 68

\* Number("abc"): not a number.  No rate and no cost of the model is negative.
NaN == -1

\* an optional value: <<>> is JavaScript's undefined, <<v>> a present value
Undefined == <<>>
Some(v) == <<v>>
IsDefined(o) == o # <<>>
ValueOf(o) == o[1]

\* the hours left out
calculateDeviceCost_flat(watts, hours, costPerKWh) == IF costPerKWh = NaN THEN NaN ELSE watts * costPerKWh

\* calculateDeviceCost(watts, hours, costPerKWh): (watts * hours / 1000) * rate
calculateDeviceCost(watts, hours, costPerKWh) == IF costPerKWh = NaN THEN NaN ELSE watts * hours * costPerKWh

\* Array.prototype.includes on a wattsOptions array
Includes(arr, v) == \E i \in 1..Len(arr) : arr[i] = v

\* function with key k removed / bound to v
Without(f, k) == [x \in DOMAIN f \ {k} |-> f[x]]
With(f, k, v) == [x \in DOMAIN f \cup {k} |-> IF x = k THEN v ELSE f[x]]

\* ------------------------------------------------------------ request state

NoError == [statusCode |-> 0, name |-> "", message |-> ""]
Err(code, name, message) == [statusCode |-> code, name |-> name, message |-> message]

\* a request: the route it is on (op), where its handler stands (pc), the answer
\* (status, message), the error it threw (raised: the error's statusCode, 0 when
\* it has none), req.user.id, the row it addresses (target), the parsed body
\* (watts, hours), what it read (snap), which tables it has written (wrote), the
\* payload it answered with (data), and whether the addressed assignment existed
\* and belonged to the caller when the request came in (owned), the
\* Authorization header it carried (token: the header's kind and whom the token
\* was issued to), the catalog row it addressed as it was when the request came
\* in (entry) with whether an assignment referenced it then (linked), and the
\* handler's list of affordable catalog ids (avail, undefined until the handler
\* has filtered) with the rate per kWh it filtered at (rate), and the figures
\* it reports per listed entry (report: deviceId, wattage, monthlyCost), the
\* email of the body of an account request (email), how the AI call settled
\* (settled: "text", "rejected", "noModel" when the call was never made) with
\* the text it returned (text), the error passed to the error middleware
\* (thrown), and the path of a request that came through the router (path)
NoToken == [kind |-> "-", by |-> "-"]
Idle == [op |-> "idle", pc |-> "idle", status |-> 0, message |-> "", raised |-> 0, userId |-> 0, target |-> 0, watts |-> Undefined, hours |-> Undefined, snap |-> Undefined, wrote |-> {}, data |-> Undefined, owned |-> FALSE, token |-> NoToken, entry |-> Undefined, linked |-> FALSE, avail |-> Undefined, rate |-> 0, report |-> <<>>, text |-> <<>>, settled |-> "-", email |-> Undefined, thrown |-> NoError, path |-> <<>>]

InFlight(s) == reqs[s].pc \notin {"idle", "done"}
Quiescent == \A s \in Slots : ~InFlight(s)
Free(s) == reqs[s].pc = "idle"

\* formatResponse(res, statusCode, message, data): the handler's own answer
formatResponse(r, statusCode, message) == [r EXCEPT !.pc = "done", !.status = statusCode, !.message = message, !.hours = Undefined, !.snap = Undefined]

\* index.js app.use((err, req, res, next) => res.status(500).json({error: err.message}))
\* is the only error middleware the application mounts: whatever statusCode or
\* name the error carries, the answer is 500 with the error's own message.
errorMiddleware(r, err) == [r EXCEPT !.pc = "done", !.status = 500, !.message = err.message, !.raised = err.statusCode, !.thrown = err, !.hours = Undefined, !.snap = Undefined]

\* ------------------------------------------------------------------- tokens

\* generateToken signs { id } only; "by" records who the token was issued to and
\* is not part of the payload.  kind: none | noToken | bad | expired | ok
NoHeader == [kind |-> "none", id |-> 0, by |-> "-"]
NoTokenPart == [kind |-> "noToken", id |-> 0, by |-> "-"]
BadToken == [kind |-> "bad", id |-> 0, by |-> "-"]
Bearer(t) == [kind |-> "ok", id |-> t.id, by |-> t.by]
Expired(t) == [kind |-> "expired", id |-> t.id, by |-> t.by]

\* jwt.verify throws on a malformed, wrongly signed or expired token
verifyToken(hdr) == IF hdr.kind = "ok" THEN [threw |-> FALSE, id |-> hdr.id] ELSE [threw |-> TRUE, id |-> 0]

\* isAuthenticated: [pass, status, message, id]; status 500 is the thrown
\* verification error reaching the error middleware
isAuthenticated(hdr) ==
    IF hdr.kind = "none" THEN [pass |-> FALSE, status |-> 401, message |-> "Access token missing", id |-> 0]
    ELSE IF hdr.kind = "noToken" THEN [pass |-> FALSE, status |-> 401, message |-> "Invalid token format", id |-> 0]
    ELSE IF verifyToken(hdr).threw THEN [pass |-> FALSE, status |-> 500, message |-> "jwt error", id |-> 0]
    ELSE [pass |-> TRUE, status |-> 0, message |-> "", id |-> verifyToken(hdr).id]

\* ------------------------------------------------------------ storage layer

\* prisma.userHomeDevice.findFirst({ where: { id, userId } })
findFirstUserHomeDevice(id, userId) ==
    IF id \in DOMAIN assignments /\ assignments[id].userId = userId THEN Some(assignments[id]) ELSE Undefined

\* userHomeDevice_userId_fkey / userHomeDevice_systemDeviceId_fkey (ON DELETE RESTRICT):
\* an insert needs both referenced rows
fkInsertOk(userId, systemDeviceId) == userId \in DOMAIN users /\ systemDeviceId \in DOMAIN catalog

\* a delete of a systemDevice row is refused while a userHomeDevice row references it
\* userHomeDevice_userId_fkey, ON DELETE RESTRICT: a user with assignments
\* cannot be deleted
fkDeleteUserOk(id) == \A a \in DOMAIN assignments : assignments[a].userId # id

fkDeleteDeviceOk(id) == \A a \in DOMAIN assignments : assignments[a].systemDeviceId # id

\* the deltas written as values: data: { minBudget: dCost, totalWattage: dWatts }
incrementUser_overwrite(row, dCost, dWatts) == [row EXCEPT !.minBudget = dCost, !.totalWattage = dWatts]

\* prisma.user.update({ data: { minBudget: { increment }, totalWattage: { increment } } }):
\* one UPDATE ... SET col = col + delta statement
\* only the wattage is moved
incrementUser_wattsOnly(row, dCost, dWatts) == [row EXCEPT !.totalWattage = @ + dWatts]

incrementUser(row, dCost, dWatts) == [row EXCEPT !.minBudget = @ + dCost, !.totalWattage = @ + dWatts]

\* --------------------------------------------- userHomeDeviceController.js

\* another request in flight addresses the same assignment row
Overlaps(s, id) == \E t \in Slots \ {s} : InFlight(t) /\ reqs[t].target = id /\ reqs[t].op \in {"updateUserHomeDevice", "deleteUserHomeDevice"}

\* the header as the request remembers it
Presented(hdr) == [kind |-> hdr.kind, by |-> hdr.by]

\* a request that passed isAuthenticated: req.user = decoded
Begin(op, hdr, target, watts) == [Idle EXCEPT !.op = op, !.userId = isAuthenticated(hdr).id, !.target = target, !.watts = watts, !.token = Presented(hdr), !.owned = (target \in DOMAIN assignments /\ assignments[target].userId = isAuthenticated(hdr).id)]

\* a request that isAuthenticated answered itself, or whose token made
\* verifyToken throw into the error middleware
Rejected(op, hdr) == [Idle EXCEPT !.op = op, !.pc = "done", !.status = isAuthenticated(hdr).status, !.message = isAuthenticated(hdr).message, !.token = Presented(hdr)]

\* addHomeDeviceToUser up to the transaction: validation, systemDevice.findUnique,
\* the wattsOptions check and actualWorkTime
addHomeDeviceToUser_checks(r, homeDeviceId, chosenWatts, userInputWorkTime) ==
    IF ~IsDefined(chosenWatts) THEN errorMiddleware(r, Err(400, "ValidationError", "Missing required parameters: chosenWatts"))
    ELSE IF homeDeviceId <= 0 \/ ValueOf(chosenWatts) <= 0 THEN errorMiddleware(r, Err(400, "Error", "Invalid homeDeviceId or chosenWatts"))
    ELSE IF homeDeviceId \notin DOMAIN catalog THEN errorMiddleware(r, Err(404, "Error", "Device not found"))
    ELSE IF ~Includes(catalog[homeDeviceId].wattsOptions, ValueOf(chosenWatts)) THEN errorMiddleware(r, Err(400, "Error", "Invalid wattage choice"))
    ELSE [r EXCEPT !.pc = "create",
                   !.hours = IF catalog[homeDeviceId].deviceWorkAllDay THEN Some(24)
                             ELSE IF IsDefined(userInputWorkTime) THEN userInputWorkTime ELSE Some(0),
                   !.snap = Some(catalog[homeDeviceId])]

addHomeDeviceToUser(s, hdr, homeDeviceId, chosenWatts, userInputWorkTime) ==
    /\ Free(s)
    /\ seqs.assignment + Cardinality({t \in Slots : InFlight(t) /\ reqs[t].op = "addHomeDeviceToUser"}) <= MaxAssignments
    /\ LET auth == isAuthenticated(hdr) IN
       reqs' = [reqs EXCEPT ![s] =
           IF ~auth.pass THEN Rejected("addHomeDeviceToUser", hdr)
           ELSE addHomeDeviceToUser_checks([Begin("addHomeDeviceToUser", hdr, homeDeviceId, chosenWatts) EXCEPT !.owned = FALSE], homeDeviceId, chosenWatts, userInputWorkTime)]
    /\ UNCHANGED <<dbVars, conflict>>

\* prisma.userHomeDevice.create inside safeTransaction's callback.  The callback
\* takes no transaction client and calls the module-level prisma, so the insert
\* is its own statement, committed when it returns.
addHomeDeviceToUser_create(s) ==
    /\ reqs[s].op = "addHomeDeviceToUser" /\ reqs[s].pc = "create"
    /\ LET r == reqs[s] IN
       IF ~fkInsertOk(r.userId, r.target)
       THEN /\ reqs' = [reqs EXCEPT ![s] = errorMiddleware(r, Err(0, "PrismaClientKnownRequestError", "Foreign key constraint failed"))]
            /\ UNCHANGED <<dbVars, conflict>>
       ELSE /\ assignments' = With(assignments, seqs.assignment, [userId |-> r.userId, systemDeviceId |-> r.target, chosenWatts |-> ValueOf(r.watts), userInputWorkTime |-> ValueOf(r.hours)])
            /\ seqs' = [seqs EXCEPT !.assignment = @ + 1]
            /\ reqs' = [reqs EXCEPT ![s] =
                   IF ValueOf(r.snap).deviceWorkAllDay
                   THEN [r EXCEPT !.pc = "userUpdate", !.wrote = @ \cup {"userHomeDevice"}, !.data = Some(seqs.assignment)]
                   ELSE [formatResponse(r, 201, "Home device added to user") EXCEPT !.wrote = @ \cup {"userHomeDevice"}, !.data = Some(seqs.assignment)]]
            /\ UNCHANGED <<users, admins, catalog, files, issued, conflict>>

\* prisma.user.update with minBudget/totalWattage increments, then the 201
addHomeDeviceToUser_userUpdate(s) ==
    /\ reqs[s].op = "addHomeDeviceToUser" /\ reqs[s].pc = "userUpdate"
    /\ LET r == reqs[s] IN
       IF r.userId \notin DOMAIN users
       THEN /\ reqs' = [reqs EXCEPT ![s] = errorMiddleware(r, Err(0, "PrismaClientKnownRequestError", "Record to update not found"))]
            /\ UNCHANGED <<dbVars, conflict>>
       ELSE /\ users' = [users EXCEPT ![r.userId] = incrementUser(@, calculateDeviceCost(ValueOf(r.watts), 24, DefaultCostPerKWh), ValueOf(r.watts))]
            /\ reqs' = [reqs EXCEPT ![s] = [formatResponse(r, 201, "Home device added to user") EXCEPT !.wrote = @ \cup {"User"}]]
            /\ UNCHANGED <<admins, catalog, assignments, files, seqs, issued, conflict>>

\* getUserHomeDeviceById: findFirst({ id, userId }), 404 error or 200
getUserHomeDeviceById_start(hdr, id) ==
    LET auth == isAuthenticated(hdr)
        r == Begin("getUserHomeDeviceById", hdr, id, Undefined) IN
    IF ~auth.pass THEN Rejected("getUserHomeDeviceById", hdr)
    ELSE IF id <= 0 THEN errorMiddleware(r, Err(400, "Error", "Invalid device ID"))
    ELSE IF ~IsDefined(findFirstUserHomeDevice(id, auth.id)) THEN errorMiddleware(r, Err(404, "Error", "Device not found"))
    ELSE [formatResponse(r, 200, "User home device retrieved successfully") EXCEPT !.data = findFirstUserHomeDevice(id, auth.id)]

getUserHomeDeviceById(s, hdr, id) ==
    /\ Free(s)
    /\ reqs' = [reqs EXCEPT ![s] = getUserHomeDeviceById_start(hdr, id)]
    /\ UNCHANGED <<dbVars, conflict>>

\* existingDevice as the handlers read it: the row with include: { systemDevice: true }
existingDevice(id, userId) == [row |-> assignments[id], systemDevice |-> catalog[assignments[id].systemDeviceId]]

\* updateUserHomeDevice up to the transaction: findFirst, the wattsOptions check
\* and updateData (watts: the new chosenWatts; hours: the new userInputWorkTime,
\* kept only when the device does not work all day)
updateUserHomeDevice_checks(r, id, chosenWatts, userInputWorkTime) ==
    IF id <= 0 THEN errorMiddleware(r, Err(400, "Error", "Invalid device ID"))
    ELSE IF ~IsDefined(findFirstUserHomeDevice(id, r.userId)) THEN errorMiddleware(r, Err(404, "Error", "Device not found"))
    ELSE IF IsDefined(chosenWatts) /\ ~Includes(existingDevice(id, r.userId).systemDevice.wattsOptions, ValueOf(chosenWatts))
         THEN errorMiddleware(r, Err(400, "Error", "Invalid wattage choice"))
    ELSE [r EXCEPT !.pc = "write",
                   !.hours = IF ~existingDevice(id, r.userId).systemDevice.deviceWorkAllDay THEN userInputWorkTime ELSE Undefined,
                   !.snap = Some(existingDevice(id, r.userId))]

updateUserHomeDevice(s, hdr, id, chosenWatts, userInputWorkTime) ==
    /\ Free(s)
    /\ LET auth == isAuthenticated(hdr)
           r == IF auth.pass THEN updateUserHomeDevice_checks(Begin("updateUserHomeDevice", hdr, id, chosenWatts), id, chosenWatts, userInputWorkTime)
                ELSE Rejected("updateUserHomeDevice", hdr) IN
       /\ reqs' = [reqs EXCEPT ![s] = r]
       /\ conflict' = (conflict \/ (r.pc = "write" /\ Overlaps(s, id)))
    /\ UNCHANGED dbVars

\* the delta applied whatever the catalog entry's all-day flag
updateNeedsUserUpdate_anyDevice(r) == IsDefined(r.watts) /\ ValueOf(r.snap).row.chosenWatts # ValueOf(r.watts)

\* the wattage delta the update applies to the owner: existingDevice is the row
\* read before the transaction
updateNeedsUserUpdate(r) ==
    /\ ValueOf(r.snap).systemDevice.deviceWorkAllDay
    /\ IsDefined(r.watts)
    /\ ValueOf(r.snap).row.chosenWatts # ValueOf(r.watts)

\* prisma.userHomeDevice.update({ where: { id }, data: updateData }) on the
\* module-level client: its own statement; P2025 when the row is gone
updateUserHomeDevice_update(s) ==
    /\ reqs[s].op = "updateUserHomeDevice" /\ reqs[s].pc = "write"
    /\ LET r == reqs[s] IN
       IF r.target \notin DOMAIN assignments
       THEN /\ reqs' = [reqs EXCEPT ![s] = errorMiddleware(r, Err(0, "PrismaClientKnownRequestError", "Record to update not found"))]
            /\ UNCHANGED <<dbVars, conflict>>
       ELSE /\ assignments' = [assignments EXCEPT ![r.target] =
                   [@ EXCEPT !.chosenWatts = IF IsDefined(r.watts) THEN ValueOf(r.watts) ELSE @,
                             !.userInputWorkTime = IF IsDefined(r.hours) THEN ValueOf(r.hours) ELSE @]]
            /\ reqs' = [reqs EXCEPT ![s] =
                   IF updateNeedsUserUpdate(r)
                   THEN [r EXCEPT !.pc = "userUpdate", !.wrote = @ \cup {"userHomeDevice"}]
                   ELSE [formatResponse(r, 200, "User home device updated successfully") EXCEPT !.wrote = @ \cup {"userHomeDevice"}]]
            /\ UNCHANGED <<users, admins, catalog, files, seqs, issued, conflict>>

\* prisma.user.update incrementing by costDifference / wattsDifference
updateUserHomeDevice_userUpdate(s) ==
    /\ reqs[s].op = "updateUserHomeDevice" /\ reqs[s].pc = "userUpdate"
    /\ LET r == reqs[s]
           old == ValueOf(r.snap).row.chosenWatts
           wattsDifference == ValueOf(r.watts) - old
           costDifference == calculateDeviceCost(ValueOf(r.watts), 24, DefaultCostPerKWh) - calculateDeviceCost(old, 24, DefaultCostPerKWh) IN
       IF r.userId \notin DOMAIN users
       THEN /\ reqs' = [reqs EXCEPT ![s] = errorMiddleware(r, Err(0, "PrismaClientKnownRequestError", "Record to update not found"))]
            /\ UNCHANGED <<dbVars, conflict>>
       ELSE /\ users' = [users EXCEPT ![r.userId] = incrementUser(@, costDifference, wattsDifference)]
            /\ reqs' = [reqs EXCEPT ![s] = [formatResponse(r, 200, "User home device updated successfully") EXCEPT !.wrote = @ \cup {"User"}]]
            /\ UNCHANGED <<admins, catalog, assignments, files, seqs, issued, conflict>>

\* deleteUserHomeDevice up to the transaction: findFirst({ id, userId })
deleteUserHomeDevice_checks(r, id) ==
    IF id <= 0 THEN errorMiddleware(r, Err(400, "Error", "Invalid device ID"))
    ELSE IF ~IsDefined(findFirstUserHomeDevice(id, r.userId)) THEN errorMiddleware(r, Err(404, "Error", "Device not found"))
    ELSE [r EXCEPT !.pc = "write", !.snap = Some(existingDevice(id, r.userId))]

deleteUserHomeDevice(s, hdr, id) ==
    /\ Free(s)
    /\ LET auth == isAuthenticated(hdr)
           r == IF auth.pass THEN deleteUserHomeDevice_checks(Begin("deleteUserHomeDevice", hdr, id, Undefined), id)
                ELSE Rejected("deleteUserHomeDevice", hdr) IN
       /\ reqs' = [reqs EXCEPT ![s] = r]
       /\ conflict' = (conflict \/ (r.pc = "write" /\ Overlaps(s, id)))
    /\ UNCHANGED dbVars

\* the decrement applied whatever the catalog entry's all-day flag
deleteNeedsUserUpdate_anyDevice(r) == ValueOf(r.snap).row.chosenWatts # 0

\* if (existingDevice.systemDevice.deviceWorkAllDay && existingDevice.chosenWatts)
deleteNeedsUserUpdate(r) == ValueOf(r.snap).systemDevice.deviceWorkAllDay /\ ValueOf(r.snap).row.chosenWatts # 0

\* prisma.userHomeDevice.delete({ where: { id } }) on the module-level client
deleteUserHomeDevice_delete(s) ==
    /\ reqs[s].op = "deleteUserHomeDevice" /\ reqs[s].pc = "write"
    /\ LET r == reqs[s] IN
       IF r.target \notin DOMAIN assignments
       THEN /\ reqs' = [reqs EXCEPT ![s] = errorMiddleware(r, Err(0, "PrismaClientKnownRequestError", "Record to delete does not exist"))]
            /\ UNCHANGED <<dbVars, conflict>>
       ELSE /\ assignments' = Without(assignments, r.target)
            /\ reqs' = [reqs EXCEPT ![s] =
                   IF deleteNeedsUserUpdate(r)
                   THEN [r EXCEPT !.pc = "userUpdate", !.wrote = @ \cup {"userHomeDevice"}]
                   ELSE [formatResponse(r, 200, "User home device deleted successfully") EXCEPT !.wrote = @ \cup {"userHomeDevice"}]]
            /\ UNCHANGED <<users, admins, catalog, files, seqs, issued, conflict>>

\* prisma.user.update decrementing by the cost and wattage read before the transaction
deleteUserHomeDevice_userUpdate(s) ==
    /\ reqs[s].op = "deleteUserHomeDevice" /\ reqs[s].pc = "userUpdate"
    /\ LET r == reqs[s]
           old == ValueOf(r.snap).row.chosenWatts IN
       IF r.userId \notin DOMAIN users
       THEN /\ reqs' = [reqs EXCEPT ![s] = errorMiddleware(r, Err(0, "PrismaClientKnownRequestError", "Record to update not found"))]
            /\ UNCHANGED <<dbVars, conflict>>
       ELSE /\ users' = [users EXCEPT ![r.userId] = incrementUser(@, 0 - calculateDeviceCost(old, 24, DefaultCostPerKWh), 0 - old)]
            /\ reqs' = [reqs EXCEPT ![s] = [formatResponse(r, 200, "User home device deleted successfully") EXCEPT !.wrote = @ \cup {"User"}]]
            /\ UNCHANGED <<admins, catalog, assignments, files, seqs, issued, conflict>>

\* The aggregate write of a handler fails (the statement is refused by the store,
\* the connection drops, the process stops between the two awaits).
\* safeTransaction rethrows; prisma.$transaction rolls back only what went
\* through its own client, and the callbacks wrote through the module-level one,
\* so the assignment write stays committed.
userUpdateFails(s) ==
    /\ reqs[s].op \in {"addHomeDeviceToUser", "updateUserHomeDevice", "deleteUserHomeDevice"}
    /\ reqs[s].pc = "userUpdate"
    /\ reqs' = [reqs EXCEPT ![s] = errorMiddleware(reqs[s], Err(0, "PrismaClientUnknownRequestError", "Transaction error"))]
    /\ UNCHANGED <<dbVars, conflict>>

\* the answer has been sent: the slot takes the next request
Respond(s) ==
    /\ reqs[s].pc = "done"
    /\ reqs' = [reqs EXCEPT ![s] = Idle]
    /\ UNCHANGED <<dbVars, conflict>>

\* ------------------------------------------------ authenticationController.js

\* bcrypt: the stored hash is not the password, and compare re-derives it
hashPassword(password) == <<"bcrypt", password>>
comparePassword(password, hash) == hash = hashPassword(password)

\* jwt.sign({ id: user.id }): the payload is the row's id, whichever table the
\* row came from ("by" is the model's record of the table)
generateToken(id, by) == [id |-> id, by |-> by]

\* a User row as registerUser creates it (budget, totalWattage, minBudget default 0)
NewUser(email, password, budget) == [email |-> email, password |-> hashPassword(password), budget |-> budget, minBudget |-> 0, totalWattage |-> 0]

\* the rows of a table that hold this email (email is @unique)
findByEmail(table, email) == {i \in DOMAIN table : table[i].email = email}

\* an answer of a route that has no authentication in front of it
Answer(op, statusCode, message) == [Idle EXCEPT !.op = op, !.pc = "done", !.status = statusCode, !.message = message]

\* registerUser: required fields, hashPassword, prisma.user.create (a duplicate
\* email violates User_email_key and lands in the catch: 500), generateToken
registerUser(s, email, password, budget, minBudget, totalWattage) ==
    /\ Free(s)
    /\ seqs.user <= MaxUsers
    /\ IF ~IsDefined(email) \/ ~IsDefined(password)
       THEN /\ reqs' = [reqs EXCEPT ![s] = Answer("registerUser", 400, "All fields are required email, password, userName")]
            /\ UNCHANGED <<dbVars, conflict>>
       ELSE IF findByEmail(users, ValueOf(email)) # {}
       THEN /\ reqs' = [reqs EXCEPT ![s] = [Answer("registerUser", 500, "Internal Server Error") EXCEPT !.email = email]]
            /\ UNCHANGED <<dbVars, conflict>>
       ELSE /\ users' = With(users, seqs.user, [NewUser(ValueOf(email), ValueOf(password), budget) EXCEPT !.minBudget = minBudget, !.totalWattage = totalWattage])
            /\ seqs' = [seqs EXCEPT !.user = @ + 1]
            /\ issued' = issued \cup {generateToken(seqs.user, "user")}
            /\ reqs' = [reqs EXCEPT ![s] = [Answer("registerUser", 201, "User registered successfully") EXCEPT !.wrote = {"User"}, !.data = Some(seqs.user), !.email = email]]
            /\ UNCHANGED <<admins, catalog, assignments, files, conflict>>

\* DELETE /user: isAuthenticated, then prisma.user.delete({ id: req.user.id });
\* whatever it throws (no such row, the foreign key) is answered 500 by the
\* handler's catch. linked: the account had assignments when the request came
deleteUser(s, hdr) ==
    /\ Free(s)
    /\ LET auth == isAuthenticated(hdr)
           r == [Begin("deleteUser", hdr, 0, Undefined) EXCEPT !.linked = ~fkDeleteUserOk(auth.id)] IN
       IF ~auth.pass
       THEN /\ reqs' = [reqs EXCEPT ![s] = Rejected("deleteUser", hdr)]
            /\ UNCHANGED <<dbVars, conflict>>
       ELSE IF auth.id \notin DOMAIN users \/ ~fkDeleteUserOk(auth.id)
       THEN /\ reqs' = [reqs EXCEPT ![s] = formatResponse(r, 500, "Internal Server Error")]
            /\ UNCHANGED <<dbVars, conflict>>
       ELSE /\ users' = Without(users, auth.id)
            /\ reqs' = [reqs EXCEPT ![s] = [formatResponse(r, 204, "User deleted successfully") EXCEPT !.wrote = {"User"}]]
            /\ UNCHANGED <<admins, catalog, assignments, files, seqs, issued, conflict>>

\* the fields of updateData that the body defines, written over the row
applyUserData(row, budget, minBudget, totalWattage) ==
    [row EXCEPT !.budget = IF IsDefined(budget) THEN ValueOf(budget) ELSE @,
                !.minBudget = IF IsDefined(minBudget) THEN ValueOf(minBudget) ELSE @,
                !.totalWattage = IF IsDefined(totalWattage) THEN ValueOf(totalWattage) ELSE @]

\* PUT /user: isAuthenticated, then prisma.user.update with the budget,
\* minBudget and totalWattage of the body; the catch answers 500
updateUser(s, hdr, budget, minBudget, totalWattage) ==
    /\ Free(s)
    /\ LET auth == isAuthenticated(hdr)
           r == Begin("updateUser", hdr, 0, Undefined) IN
       IF ~auth.pass
       THEN /\ reqs' = [reqs EXCEPT ![s] = Rejected("updateUser", hdr)]
            /\ UNCHANGED <<dbVars, conflict>>
       ELSE IF auth.id \notin DOMAIN users
       THEN /\ reqs' = [reqs EXCEPT ![s] = formatResponse(r, 500, "Internal Server Error")]
            /\ UNCHANGED <<dbVars, conflict>>
       ELSE /\ users' = [users EXCEPT ![auth.id] = applyUserData(@, budget, minBudget, totalWattage)]
            /\ reqs' = [reqs EXCEPT ![s] = [formatResponse(r, 200, "User updated successfully") EXCEPT !.wrote = {"User"}]]
            /\ UNCHANGED <<admins, catalog, assignments, files, seqs, issued, conflict>>

\* updateUserBudget: 400 without a budget, else prisma.user.update({ budget })
updateUserBudget(s, hdr, budget) ==
    /\ Free(s)
    /\ LET auth == isAuthenticated(hdr)
           r == Begin("updateUserBudget", hdr, 0, Undefined) IN
       IF ~auth.pass
       THEN /\ reqs' = [reqs EXCEPT ![s] = Rejected("updateUserBudget", hdr)]
            /\ UNCHANGED <<dbVars, conflict>>
       ELSE IF ~IsDefined(budget) \/ auth.id \notin DOMAIN users
       THEN /\ reqs' = [reqs EXCEPT ![s] = IF ~IsDefined(budget) THEN formatResponse(r, 400, "Budget is required") ELSE formatResponse(r, 500, "Internal Server Error")]
            /\ UNCHANGED <<dbVars, conflict>>
       ELSE /\ users' = [users EXCEPT ![auth.id] = applyUserData(@, budget, Undefined, Undefined)]
            /\ reqs' = [reqs EXCEPT ![s] = [formatResponse(r, 200, "Budget updated successfully") EXCEPT !.wrote = {"User"}]]
            /\ UNCHANGED <<admins, catalog, assignments, files, seqs, issued, conflict>>

\* GET /user: isAuthenticated, then prisma.user.findUnique({ id: req.user.id });
\* the row (or null) is answered 200
getUser(s, hdr) ==
    /\ Free(s)
    /\ LET auth == isAuthenticated(hdr)
           r == Begin("getUser", hdr, 0, Undefined) IN
       reqs' = [reqs EXCEPT ![s] =
           IF ~auth.pass THEN Rejected("getUser", hdr)
           ELSE [formatResponse(r, 200, "User details retrieved successfully") EXCEPT
                    !.data = IF auth.id \in DOMAIN users THEN Some(users[auth.id]) ELSE Undefined]]
    /\ UNCHANGED <<dbVars, conflict>>

\* loginUser: findUnique({ email }), comparePassword, generateToken
loginUser(s, email, password) ==
    /\ Free(s)
    /\ IF ~IsDefined(email) \/ ~IsDefined(password)
       THEN /\ reqs' = [reqs EXCEPT ![s] = Answer("loginUser", 400, "All fields are required")]
            /\ UNCHANGED <<dbVars, conflict>>
       ELSE IF \A i \in findByEmail(users, ValueOf(email)) : ~comparePassword(ValueOf(password), users[i].password)
       THEN /\ reqs' = [reqs EXCEPT ![s] = Answer("loginUser", 401, "Invalid credentials")]
            /\ UNCHANGED <<dbVars, conflict>>
       ELSE /\ issued' = issued \cup {generateToken(i, "user") : i \in findByEmail(users, ValueOf(email))}
            /\ reqs' = [reqs EXCEPT ![s] = Answer("loginUser", 200, "Login successful")]
            /\ UNCHANGED <<users, admins, catalog, assignments, files, seqs, conflict>>

\* createAdmin up to the insert: required fields, hashPassword, findUnique({ email })
createAdmin(s, email, password) ==
    /\ Free(s)
    /\ seqs.admin + Cardinality({t \in Slots : InFlight(t) /\ reqs[t].op = "createAdmin"}) <= MaxAdmins
    /\ reqs' = [reqs EXCEPT ![s] =
           IF ~IsDefined(email) \/ ~IsDefined(password) THEN Answer("createAdmin", 400, "All fields are required")
           ELSE IF findByEmail(admins, ValueOf(email)) # {} THEN [Answer("createAdmin", 400, "Admin already exists") EXCEPT !.email = email]
           ELSE [Idle EXCEPT !.op = "createAdmin", !.pc = "create", !.email = email, !.data = Some([email |-> ValueOf(email), password |-> hashPassword(ValueOf(password))])]]
    /\ UNCHANGED <<dbVars, conflict>>

\* prisma.admin.create (admin_email_key refuses a second row with the email)
createAdmin_create(s) ==
    /\ reqs[s].op = "createAdmin" /\ reqs[s].pc = "create"
    /\ LET r == reqs[s] IN
       IF findByEmail(admins, ValueOf(r.data).email) # {}
       THEN /\ reqs' = [reqs EXCEPT ![s] = formatResponse(r, 500, "Internal Server Error")]
            /\ UNCHANGED <<dbVars, conflict>>
       ELSE /\ admins' = With(admins, seqs.admin, ValueOf(r.data))
            /\ seqs' = [seqs EXCEPT !.admin = @ + 1]
            /\ reqs' = [reqs EXCEPT ![s] = [formatResponse(r, 201, "Admin created successfully") EXCEPT !.wrote = {"admin"}, !.data = Some(seqs.admin)]]
            /\ UNCHANGED <<users, catalog, assignments, files, issued, conflict>>

\* loginAdmin: findUnique({ email }), comparePassword, generateToken(admin)
loginAdmin(s, email, password) ==
    /\ Free(s)
    /\ IF ~IsDefined(email) \/ ~IsDefined(password)
       THEN /\ reqs' = [reqs EXCEPT ![s] = Answer("loginAdmin", 400, "All fields are required")]
            /\ UNCHANGED <<dbVars, conflict>>
       ELSE IF \A i \in findByEmail(admins, ValueOf(email)) : ~comparePassword(ValueOf(password), admins[i].password)
       THEN /\ reqs' = [reqs EXCEPT ![s] = Answer("loginAdmin", 401, "Invalid credentials")]
            /\ UNCHANGED <<dbVars, conflict>>
       ELSE /\ issued' = issued \cup {generateToken(i, "admin") : i \in findByEmail(admins, ValueOf(email))}
            /\ reqs' = [reqs EXCEPT ![s] = Answer("loginAdmin", 200, "Admin login successful")]
            /\ UNCHANGED <<users, admins, catalog, assignments, files, seqs, conflict>>

\* ------------------------------------------------------------ the admin gate

\* isAdmin: reads the header again, verifies the token again, and looks the
\* token's id up in the admin table.  A throw of verifyToken inside this async
\* middleware is a rejected promise, which express-async-errors hands to the
\* error middleware.
isAdmin(hdr) ==
    IF hdr.kind = "none" THEN [pass |-> FALSE, status |-> 401, message |-> "Access token missing", id |-> 0]
    ELSE IF hdr.kind = "noToken" THEN [pass |-> FALSE, status |-> 401, message |-> "Invalid token format", id |-> 0]
    ELSE IF verifyToken(hdr).threw THEN [pass |-> FALSE, status |-> 500, message |-> "jwt error", id |-> 0]
    ELSE IF verifyToken(hdr).id \notin DOMAIN admins THEN [pass |-> FALSE, status |-> 403, message |-> "Forbidden: Admin access required", id |-> verifyToken(hdr).id]
    ELSE [pass |-> TRUE, status |-> 0, message |-> "", id |-> verifyToken(hdr).id]

\* router.<verb>(path, isAuthenticated, isAdmin, ...)
adminGate(hdr) == IF ~isAuthenticated(hdr).pass THEN isAuthenticated(hdr) ELSE isAdmin(hdr)

\* a request one of the two middlewares answered
GateRejected(op, hdr) == [Idle EXCEPT !.op = op, !.pc = "done", !.status = adminGate(hdr).status, !.message = adminGate(hdr).message, !.token = Presented(hdr)]

\* GET /admin
getAdmin(s, hdr) ==
    /\ Free(s)
    /\ reqs' = [reqs EXCEPT ![s] =
           IF ~adminGate(hdr).pass THEN GateRejected("getAdmin", hdr)
           ELSE formatResponse(Begin("getAdmin", hdr, 0, Undefined), 200, "Welcome Admin")]
    /\ UNCHANGED <<dbVars, conflict>>

\* ------------------------------------------------ systemDevicesController.js

\* handleServerError(res, error, message): 500 with the handler's own message
handleServerError(r, message) == formatResponse(r, 500, message)

\* multer's diskStorage: the uploaded image is on disk, under a fresh name,
\* before the handler runs
upload(fs, path) == IF IsDefined(path) THEN fs \cup {ValueOf(path)} ELSE fs

\* the file is left where it is
cleanupFile_keep(fs, path) == fs

\* cleanupFile(filePath): unlink the file when a path is given and it exists
cleanupFile(fs, path) == IF IsDefined(path) THEN fs \ {ValueOf(path)} ELSE fs

\* parseWattsOptions on an array: parseInt each element, drop what is not a number
parseWattsOptions(wattsOptions) == SelectSeq(wattsOptions, LAMBDA w : w # NaN)

\* getBooleanValue: true or the string "true" (a multipart field is a string)
getBooleanValue(value) == value = "true"

\* no assignment is counted
linkedDevicesCount_none(id) == 0

\* prisma.userHomeDevice.count({ where: { systemDeviceId } })
linkedDevicesCount(id) == Cardinality({a \in DOMAIN assignments : assignments[a].systemDeviceId = id})

\* a request that passed the admin gate, with the catalog row it addresses as
\* it is now
BeginCatalog(op, hdr, id) == [Begin(op, hdr, id, Undefined) EXCEPT !.owned = FALSE, !.entry = IF id \in DOMAIN catalog THEN Some(catalog[id]) ELSE Undefined, !.linked = \E a \in DOMAIN assignments : assignments[a].systemDeviceId = id]

\* createSystemDevice up to the insert: the gate, the upload, the required
\* fields, findFirst({ name }).  path is req.file.path, undefined without a file.
createSystemDevice(s, hdr, name, wattsOptions, deviceWorkAllDay, file) ==
    /\ Free(s)
    /\ seqs.device + Cardinality({t \in Slots : InFlight(t) /\ reqs[t].op = "createSystemDevice"}) <= MaxDevices
    /\ file => seqs.file <= MaxFiles
    /\ LET path == IF file THEN Some(seqs.file) ELSE Undefined
           r == BeginCatalog("createSystemDevice", hdr, 0) IN
       IF ~adminGate(hdr).pass
       THEN /\ reqs' = [reqs EXCEPT ![s] = GateRejected("createSystemDevice", hdr)]
            /\ UNCHANGED <<dbVars, conflict>>
       ELSE /\ seqs' = [seqs EXCEPT !.file = IF file THEN @ + 1 ELSE @]
            /\ UNCHANGED <<users, admins, catalog, assignments, issued, conflict>>
            /\ IF ~IsDefined(name) \/ ~IsDefined(wattsOptions)
               THEN /\ files' = cleanupFile(upload(files, path), path)
                    /\ reqs' = [reqs EXCEPT ![s] = formatResponse(r, 400, "Missing required fields")]
               ELSE IF \E i \in DOMAIN catalog : catalog[i].name = ValueOf(name)
               THEN /\ files' = cleanupFile(upload(files, path), path)
                    /\ reqs' = [reqs EXCEPT ![s] = formatResponse(r, 400, "System device with this name already exists")]
               ELSE /\ files' = upload(files, path)
                    /\ reqs' = [reqs EXCEPT ![s] = [r EXCEPT !.pc = "create", !.snap = path,
                           !.data = Some([name |-> ValueOf(name), img |-> path, wattsOptions |-> parseWattsOptions(ValueOf(wattsOptions)), deviceWorkAllDay |-> getBooleanValue(deviceWorkAllDay)])]]

\* prisma.systemDevice.create: img is a required column, so a row without an
\* uploaded image is refused; the catch removes the uploaded file and answers 500
createSystemDevice_create(s) ==
    /\ reqs[s].op = "createSystemDevice" /\ reqs[s].pc = "create"
    /\ LET r == reqs[s] IN
       IF ~IsDefined(ValueOf(r.data).img)
       THEN /\ files' = cleanupFile(files, r.snap)
            /\ reqs' = [reqs EXCEPT ![s] = handleServerError(r, "Error creating system device")]
            /\ UNCHANGED <<users, admins, catalog, assignments, seqs, issued, conflict>>
       ELSE /\ catalog' = With(catalog, seqs.device, ValueOf(r.data))
            /\ seqs' = [seqs EXCEPT !.device = @ + 1]
            /\ reqs' = [reqs EXCEPT ![s] = [formatResponse(r, 201, "System device created successfully") EXCEPT !.wrote = {"systemDevice"}, !.target = seqs.device]]
            /\ UNCHANGED <<users, admins, assignments, files, issued, conflict>>

\* updateSystemDevice up to the update: the gate, the upload, the id check,
\* findUnique, updateData, and, when a new image came, the removal of the old one
updateSystemDevice(s, hdr, id, name, wattsOptions, deviceWorkAllDay, file) ==
    /\ Free(s)
    /\ file => seqs.file <= MaxFiles
    /\ LET path == IF file THEN Some(seqs.file) ELSE Undefined
           r == BeginCatalog("updateSystemDevice", hdr, id) IN
       IF ~adminGate(hdr).pass
       THEN /\ reqs' = [reqs EXCEPT ![s] = GateRejected("updateSystemDevice", hdr)]
            /\ UNCHANGED <<dbVars, conflict>>
       ELSE /\ seqs' = [seqs EXCEPT !.file = IF file THEN @ + 1 ELSE @]
            /\ UNCHANGED <<users, admins, catalog, assignments, issued, conflict>>
            /\ IF id <= 0
               THEN /\ files' = cleanupFile(upload(files, path), path)
                    /\ reqs' = [reqs EXCEPT ![s] = formatResponse(r, 400, "Invalid device ID")]
               ELSE IF id \notin DOMAIN catalog
               THEN /\ files' = cleanupFile(upload(files, path), path)
                    /\ reqs' = [reqs EXCEPT ![s] = formatResponse(r, 404, "System device not found")]
               ELSE /\ files' = IF file THEN cleanupFile(upload(files, path), catalog[id].img) ELSE files
                    /\ reqs' = [reqs EXCEPT ![s] = [r EXCEPT !.pc = "update", !.snap = path,
                           !.data = Some([name |-> name, img |-> path, wattsOptions |-> IF IsDefined(wattsOptions) THEN Some(parseWattsOptions(ValueOf(wattsOptions))) ELSE Undefined, deviceWorkAllDay |-> IF IsDefined(deviceWorkAllDay) THEN Some(getBooleanValue(ValueOf(deviceWorkAllDay))) ELSE Undefined])]]

\* prisma.systemDevice.update({ where: { id }, data: updateData }): only the
\* fields of updateData change
applyUpdateData(row, updateData) ==
    [name |-> IF IsDefined(updateData.name) THEN ValueOf(updateData.name) ELSE row.name,
     img |-> IF IsDefined(updateData.img) THEN updateData.img ELSE row.img,
     wattsOptions |-> IF IsDefined(updateData.wattsOptions) THEN ValueOf(updateData.wattsOptions) ELSE row.wattsOptions,
     deviceWorkAllDay |-> IF IsDefined(updateData.deviceWorkAllDay) THEN ValueOf(updateData.deviceWorkAllDay) ELSE row.deviceWorkAllDay]

\* the update statement; a row that is gone by now is Prisma's P2025, which the
\* catch answers 500 after removing the uploaded file
updateSystemDevice_update(s) ==
    /\ reqs[s].op = "updateSystemDevice" /\ reqs[s].pc = "update"
    /\ LET r == reqs[s] IN
       IF r.target \notin DOMAIN catalog
       THEN /\ files' = cleanupFile(files, r.snap)
            /\ reqs' = [reqs EXCEPT ![s] = handleServerError(r, "Error updating system device")]
            /\ UNCHANGED <<users, admins, catalog, assignments, seqs, issued, conflict>>
       ELSE /\ catalog' = [catalog EXCEPT ![r.target] = applyUpdateData(@, ValueOf(r.data))]
            /\ reqs' = [reqs EXCEPT ![s] = [formatResponse(r, 200, "System device updated successfully") EXCEPT !.wrote = {"systemDevice"}]]
            /\ UNCHANGED <<users, admins, assignments, files, seqs, issued, conflict>>

\* deleteSystemDevice up to the count: the gate, the id check, findUnique
deleteSystemDevice(s, hdr, id) ==
    /\ Free(s)
    /\ LET r == BeginCatalog("deleteSystemDevice", hdr, id) IN
       reqs' = [reqs EXCEPT ![s] =
           IF ~adminGate(hdr).pass THEN GateRejected("deleteSystemDevice", hdr)
           ELSE IF id <= 0 THEN formatResponse(r, 400, "Invalid device ID")
           ELSE IF id \notin DOMAIN catalog THEN formatResponse(r, 404, "System device not found")
           ELSE [r EXCEPT !.pc = "count", !.snap = Some(catalog[id])]]
    /\ UNCHANGED <<dbVars, conflict>>

\* userHomeDevice.count, the 409 when a row is linked, and otherwise the removal
\* of the image file of the row that findUnique returned
deleteSystemDevice_count(s) ==
    /\ reqs[s].op = "deleteSystemDevice" /\ reqs[s].pc = "count"
    /\ LET r == reqs[s] IN
       IF linkedDevicesCount(r.target) > 0
       THEN /\ reqs' = [reqs EXCEPT ![s] = formatResponse(r, 409, "Cannot delete device as it is linked to user home devices")]
            /\ UNCHANGED <<dbVars, conflict>>
       ELSE /\ files' = cleanupFile(files, ValueOf(r.snap).img)
            /\ reqs' = [reqs EXCEPT ![s] = [r EXCEPT !.pc = "delete", !.wrote = @ \cup {"file"}]]
            /\ UNCHANGED <<users, admins, catalog, assignments, seqs, issued, conflict>>

\* prisma.systemDevice.delete: refused when the row is gone (P2025) or a
\* userHomeDevice row references it (userHomeDevice_systemDeviceId_fkey)
deleteSystemDevice_delete(s) ==
    /\ reqs[s].op = "deleteSystemDevice" /\ reqs[s].pc = "delete"
    /\ LET r == reqs[s] IN
       IF r.target \notin DOMAIN catalog \/ ~fkDeleteDeviceOk(r.target)
       THEN /\ reqs' = [reqs EXCEPT ![s] = handleServerError(r, "Error deleting system device")]
            /\ UNCHANGED <<dbVars, conflict>>
       ELSE /\ catalog' = Without(catalog, r.target)
            /\ reqs' = [reqs EXCEPT ![s] = [formatResponse(r, 200, "System device deleted successfully") EXCEPT !.wrote = @ \cup {"systemDevice"}]]
            /\ UNCHANGED <<users, admins, assignments, files, seqs, issued, conflict>>

\* ----------------------------------------------------- recommendations

\* safeParseNumber(value, defaultValue) on a numeric column
safeParseNumber(value, defaultValue) == IF value = NaN THEN defaultValue ELSE value

\* Number(costPerKWh) on the query strings the model sends, in hundredths
Number(str) == CASE str = "0.68" -> 68 [] str = "0.5" -> 50 [] str = "1" -> 100 [] str = "" -> 0 [] OTHER -> NaN

\* device.deviceWorkAllDay ? 24 : 8
hoursPerDay(device) == IF device.deviceWorkAllDay THEN 24 ELSE 8

\* the comparison made strict
fitsBudget_strict(dailyCost, remainingBudget) == dailyCost # NaN /\ dailyCost * 30 < remainingBudget

\* dailyCost * 30 <= remainingBudget (false when dailyCost is not a number)
fitsBudget(dailyCost, remainingBudget) == dailyCost # NaN /\ dailyCost * 30 <= remainingBudget

\* device.wattsOptions.filter(watts => calculateDeviceCost(...) * 30 <= remainingBudget)
affordableWattOptions(device, costPerKWh, remainingBudget) ==
    SelectSeq(device.wattsOptions, LAMBDA watts : fitsBudget(calculateDeviceCost(watts, hoursPerDay(device), costPerKWh), remainingBudget))

\* prisma.systemDevice.findMany(): the ids of the catalog rows, in id order
RECURSIVE findManyIds(_)
findManyIds(ids) == IF ids = {} THEN <<>> ELSE LET m == CHOOSE x \in ids : \A y \in ids : x <= y IN <<m>> \o findManyIds(ids \ {m})

\* allDevices.filter(device => affordableWattOptions.length > 0), as ids
filterDevices(costPerKWh, remainingBudget) ==
    SelectSeq(findManyIds(DOMAIN catalog), LAMBDA id : Len(affordableWattOptions(catalog[id], costPerKWh, remainingBudget)) > 0)

\* getRecommendedDevices' filter: calculateDeviceCost is called without a rate
recommendedDevices(user) == filterDevices(DefaultCostPerKWh, safeParseNumber(user.budget, 0) - safeParseNumber(user.minBudget, 0))

\* getAIRecommendations' availableDevices
availableDevices(user, costPerKWh) == filterDevices(costPerKWh, user.budget - user.minBudget)

\* the largest option is taken
affordableWattage_max(device, costPerKWh, remainingBudget) ==
    LET opts == affordableWattOptions(device, costPerKWh, remainingBudget) IN
    CHOOSE w \in {opts[i] : i \in 1..Len(opts)} : \A j \in 1..Len(opts) : w >= opts[j]

\* Math.min(...device.wattsOptions.filter(...)), for a device that passed the filter
affordableWattage(device, costPerKWh, remainingBudget) ==
    LET opts == affordableWattOptions(device, costPerKWh, remainingBudget) IN
    CHOOSE w \in {opts[i] : i \in 1..Len(opts)} : \A j \in 1..Len(opts) : w <= opts[j]

\* one entry of formattedAvailableDevices / of the fallback's recommendations:
\* the id, the representative wattage, calculateDeviceCost(...) * 30
formatDevice(id, costPerKWh, remainingBudget) ==
    [deviceId |-> id,
     wattage |-> affordableWattage(catalog[id], costPerKWh, remainingBudget),
     monthlyCost |-> calculateDeviceCost(affordableWattage(catalog[id], costPerKWh, remainingBudget), hoursPerDay(catalog[id]), costPerKWh) * 30]

\* devices.map(device => ({ ... }))
formatDevices(ids, costPerKWh, remainingBudget) == [i \in 1..Len(ids) |-> formatDevice(ids[i], costPerKWh, remainingBudget)]

\* .slice(0, 3)
slice3_uncut(seq) == seq

slice3(seq) == SubSeq(seq, 1, IF Len(seq) < 3 THEN Len(seq) ELSE 3)

\* getRecommendedDevices up to findMany: user.findUnique, the 404 error
getRecommendedDevices_start(hdr) ==
    LET r == Begin("getRecommendedDevices", hdr, 0, Undefined) IN
    IF ~isAuthenticated(hdr).pass THEN Rejected("getRecommendedDevices", hdr)
    ELSE IF r.userId \notin DOMAIN users THEN errorMiddleware(r, Err(404, "Error", "User not found"))
    ELSE [r EXCEPT !.pc = "findMany", !.snap = Some(users[r.userId]), !.rate = DefaultCostPerKWh]

getRecommendedDevices(s, hdr) ==
    /\ Free(s)
    /\ reqs' = [reqs EXCEPT ![s] = getRecommendedDevices_start(hdr)]
    /\ UNCHANGED <<dbVars, conflict>>

\* systemDevice.findMany, the filter, the 200
getRecommendedDevices_findMany(s) ==
    /\ reqs[s].op = "getRecommendedDevices" /\ reqs[s].pc = "findMany"
    /\ LET r == reqs[s] IN
       reqs' = [reqs EXCEPT ![s] = [formatResponse(r, 200, "Recommended devices retrieved successfully") EXCEPT !.avail = Some(recommendedDevices(ValueOf(r.snap))), !.data = Some(recommendedDevices(ValueOf(r.snap)))]]
    /\ UNCHANGED <<dbVars, conflict>>

\* getAIDeviceRecommendations and getAIRecommendations up to the reads of the
\* devices: Number(costPerKWh) with the default 0.68, user.findUnique.  A
\* missing user throws into the catch, and the fallback is tried.
getAIDeviceRecommendations(s, hdr, costPerKWh) ==
    /\ Free(s)
    /\ LET r == [Begin("getAIDeviceRecommendations", hdr, 0, Undefined) EXCEPT !.rate = IF IsDefined(costPerKWh) THEN Number(ValueOf(costPerKWh)) ELSE DefaultCostPerKWh] IN
       reqs' = [reqs EXCEPT ![s] =
           IF ~isAuthenticated(hdr).pass THEN Rejected("getAIDeviceRecommendations", hdr)
           ELSE IF r.userId \notin DOMAIN users THEN [r EXCEPT !.pc = "fallback"]
           ELSE [r EXCEPT !.pc = "available", !.snap = Some(users[r.userId])]]
    /\ UNCHANGED <<dbVars, conflict>>

\* userHomeDevice.findMany, systemDevice.findMany, availableDevices and
\* createGeminiModel(), which throws into the catch (and so to the fallback)
\* when the API key is missing or the client cannot be built (~modelOk)
getAIRecommendations_available(s, modelOk) ==
    /\ reqs[s].op = "getAIDeviceRecommendations" /\ reqs[s].pc = "available"
    /\ LET r == reqs[s] IN
       reqs' = [reqs EXCEPT ![s] =
           IF modelOk
           THEN [r EXCEPT !.pc = "generate", !.avail = Some(availableDevices(ValueOf(r.snap), r.rate)),
                          !.report = formatDevices(availableDevices(ValueOf(r.snap), r.rate), r.rate, ValueOf(r.snap).budget - ValueOf(r.snap).minBudget)]
           ELSE [r EXCEPT !.pc = "fallback", !.snap = Undefined, !.settled = "noModel"]]
    /\ UNCHANGED <<dbVars, conflict>>

\* ---- the text of an AI response
\* A text is a sequence of tokens: a code-fence marker (three backquotes), the
\* tag json, white space, prose, and the chunks of a serialized JSON payload.
\* A payload is what the model was asked for: deviceRecommendations (kind: a
\* list of ids, not a list, or missing) and strings that hold `markers`
\* code-fence markers, which cut its serialization into markers + 1 chunks.
NoPayload == [kind |-> "-", ids |-> <<>>, markers |-> 0]
Tok(t) == [t |-> t, payload |-> NoPayload, part |-> 0]
Chunk(payload, part) == [t |-> "chunk", payload |-> payload, part |-> part]

\* the text of a payload
JSONstringify(payload) == [i \in 1..(2 * payload.markers + 1) |-> IF i % 2 = 1 THEN Chunk(payload, (i + 1) \div 2) ELSE Tok("fence")]

\* String.prototype.trim
trim(text) ==
    LET solid == {i \in 1..Len(text) : text[i].t # "ws"} IN
    IF solid = {} THEN <<>>
    ELSE SubSeq(text, CHOOSE a \in solid : \A i \in solid : a <= i, CHOOSE b \in solid : \A i \in solid : b >= i)

\* JSON.parse: the payload when the text (white space around it aside) is the
\* whole serialization of one payload, undefined for the SyntaxError
JSONparse(text) ==
    LET body == trim(text) IN
    IF body # <<>> /\ body[1].t = "chunk" /\ body = JSONstringify(body[1].payload) THEN Some(body[1].payload) ELSE Undefined

\* responseText.match(/```(?:json)?\s*([\s\S]*?)```/)[1]: from the first marker,
\* past an optional json tag and white space, up to the next marker; undefined
\* when the text holds fewer than two markers
codeBlockMatch(text) ==
    LET fences == {i \in 1..Len(text) : text[i].t = "fence"} IN
    IF Cardinality(fences) < 2 THEN Undefined
    ELSE LET a == CHOOSE i \in fences : \A j \in fences : i <= j
             b == CHOOSE i \in fences \ {a} : \A j \in fences \ {a} : i <= j
             k == IF a + 1 < b /\ text[a + 1].t = "json" THEN a + 2 ELSE a + 1
             c == CHOOSE i \in k..b : (i = b \/ text[i].t # "ws") /\ \A j \in k..(i - 1) : text[j].t = "ws"
         IN Some(SubSeq(text, c, b - 1))

\* cleanedResponseText: the trimmed capture when there is a non-empty one
cleanResponseText(text) ==
    IF IsDefined(codeBlockMatch(text)) /\ ValueOf(codeBlockMatch(text)) # <<>> THEN trim(ValueOf(codeBlockMatch(text))) ELSE text

\* the inner try: clean, JSON.parse, the deviceRecommendations check; the
\* recommended deviceIds, undefined when something was thrown
parseRecommendations(text) ==
    IF IsDefined(JSONparse(cleanResponseText(text))) /\ ValueOf(JSONparse(cleanResponseText(text))).kind = "list"
    THEN Some(ValueOf(JSONparse(cleanResponseText(text))).ids) ELSE Undefined

\* what becomes of model.generateContent(): the promise rejects, or it
\* resolves with a text
AICallFails == [ok |-> FALSE, text |-> <<>>]
AIText(text) == [ok |-> TRUE, text |-> text]

\* model.generateContent settles and the handler goes on: the recommendations
\* of a text that parses are returned as they are (enriched from
\* availableDevices); a rejected call, a text that does not parse or a payload
\* whose deviceRecommendations is not a list is thrown into a catch, which
\* calls getFallbackRecommendations
getAIRecommendations_generate(s, outcome) ==
    /\ reqs[s].op = "getAIDeviceRecommendations" /\ reqs[s].pc = "generate"
    /\ LET r == reqs[s] IN
       reqs' = [reqs EXCEPT ![s] =
           IF outcome.ok /\ IsDefined(parseRecommendations(outcome.text))
           THEN [formatResponse(r, 200, "AI recommendations retrieved successfully") EXCEPT !.data = parseRecommendations(outcome.text), !.text = outcome.text, !.settled = "text"]
           ELSE [r EXCEPT !.pc = "fallback", !.avail = Undefined, !.snap = Undefined, !.report = <<>>, !.text = outcome.text,
                          !.settled = IF outcome.ok THEN "text" ELSE "rejected"]]
    /\ UNCHANGED <<dbVars, conflict>>

\* getFallbackRecommendations up to findMany: user.findUnique; a missing user is
\* rethrown to the controller, which answers 500
getFallbackRecommendations(s) ==
    /\ reqs[s].op = "getAIDeviceRecommendations" /\ reqs[s].pc = "fallback"
    /\ LET r == reqs[s] IN
       reqs' = [reqs EXCEPT ![s] =
           IF r.userId \notin DOMAIN users THEN formatResponse(r, 500, "Failed to retrieve AI recommendations")
           ELSE [r EXCEPT !.pc = "fallbackFindMany", !.snap = Some(users[r.userId])]]
    /\ UNCHANGED <<dbVars, conflict>>

\* systemDevice.findMany, the filter, the cut to three, the answer
getFallbackRecommendations_findMany(s) ==
    /\ reqs[s].op = "getAIDeviceRecommendations" /\ reqs[s].pc = "fallbackFindMany"
    /\ LET r == reqs[s] IN
       reqs' = [reqs EXCEPT ![s] = [formatResponse(r, 200, "AI recommendations retrieved successfully") EXCEPT !.avail = Some(availableDevices(ValueOf(r.snap), r.rate)), !.data = Some(slice3(availableDevices(ValueOf(r.snap), r.rate))),
                                              !.report = formatDevices(slice3(availableDevices(ValueOf(r.snap), r.rate)), r.rate, ValueOf(r.snap).budget - ValueOf(r.snap).minBudget)]]
    /\ UNCHANGED <<dbVars, conflict>>

\* GET /ai/tips/:deviceId up to the AI call: the token, getDeviceEnergyTips'
\* systemDevice.findUnique and createGeminiModel(); what they throw is
\* rethrown by getDeviceEnergyTips' catch and answered by the controller's
getDeviceSpecificTips(s, hdr, deviceId, modelOk) ==
    /\ Free(s)
    /\ LET r == Begin("getDeviceSpecificTips", hdr, deviceId, Undefined) IN
       reqs' = [reqs EXCEPT ![s] =
           IF ~isAuthenticated(hdr).pass THEN Rejected("getDeviceSpecificTips", hdr)
           ELSE IF deviceId \notin DOMAIN catalog THEN formatResponse(r, 500, "Failed to retrieve device tips")
           ELSE IF ~modelOk THEN [formatResponse(r, 500, "Failed to retrieve device tips") EXCEPT !.settled = "noModel"]
           ELSE [r EXCEPT !.pc = "tips", !.entry = Some(catalog[deviceId])]]
    /\ UNCHANGED <<dbVars, conflict>>

\* model.generateContent settles: a rejection is rethrown and answered 500; a
\* text that parses is returned as the tips, one that does not is replaced by
\* getFallbackDeviceTips(device), both with 200
getDeviceEnergyTips_generate(s, outcome) ==
    /\ reqs[s].op = "getDeviceSpecificTips" /\ reqs[s].pc = "tips"
    /\ LET r == reqs[s] IN
       reqs' = [reqs EXCEPT ![s] =
           IF ~outcome.ok THEN [formatResponse(r, 500, "Failed to retrieve device tips") EXCEPT !.settled = "rejected"]
           ELSE [formatResponse(r, 200, "Device tips retrieved successfully") EXCEPT !.settled = "text", !.text = outcome.text,
                      !.data = IF IsDefined(JSONparse(cleanResponseText(outcome.text))) THEN Some(ValueOf(JSONparse(cleanResponseText(outcome.text))).ids) ELSE Undefined]]
    /\ UNCHANGED <<dbVars, conflict>>

\* ------------------------------------------------------------ utils.js

\* a call calculateDeviceCost(watts, hours) or calculateDeviceCost(watts,
\* hours, costPerKWh): the parameter's default is 0.68; the arguments and the
\* value returned are kept
calculateDeviceCost_call(s, watts, hours, costPerKWh) ==
    /\ Free(s)
    /\ reqs' = [reqs EXCEPT ![s] = [Idle EXCEPT !.op = "calculateDeviceCost", !.pc = "done", !.watts = Some(watts), !.hours = Some(hours),
                    !.data = Some([costPerKWh |-> costPerKWh,
                                   cost |-> calculateDeviceCost(watts, hours, IF IsDefined(costPerKWh) THEN ValueOf(costPerKWh) ELSE DefaultCostPerKWh)])]]
    /\ UNCHANGED <<dbVars, conflict>>

\* ------------------------------------------------------------ pagination

\* a query value is a string, written as the sequence of its characters
DigitValue == [c \in {"0", "1", "2", "3", "4", "5", "6", "7", "8", "9"} |-> CASE c = "0" -> 0 [] c = "1" -> 1 [] c = "2" -> 2 [] c = "3" -> 3 [] c = "4" -> 4 [] c = "5" -> 5 [] c = "6" -> 6 [] c = "7" -> 7 [] c = "8" -> 8 [] c = "9" -> 9]

\* the longest prefix of str made of decimal digits
RECURSIVE leadingDigits(_)
leadingDigits(str) ==
    IF str = <<>> \/ Head(str) \notin DOMAIN DigitValue THEN <<>> ELSE <<Head(str)>> \o leadingDigits(Tail(str))

RECURSIVE digitsValue(_, _)
digitsValue(ds, acc) == IF ds = <<>> THEN acc ELSE digitsValue(Tail(ds), 10 * acc + DigitValue[Head(ds)])

\* parseInt(value): an optional sign, then the leading digits; what follows the
\* digits is ignored.  Undefined stands for the NaN it returns for undefined
\* and for a string with no leading digits
parseInt(value) ==
    IF ~IsDefined(value) THEN Undefined
    ELSE LET str == ValueOf(value)
             signed == str # <<>> /\ Head(str) \in {"-", "+"}
             ds == leadingDigits(IF signed THEN Tail(str) ELSE str) IN
         IF ds = <<>> THEN Undefined
         ELSE Some(IF signed /\ Head(str) = "-" THEN 0 - digitsValue(ds, 0) ELSE digitsValue(ds, 0))

\* parsed || fallback: NaN and 0 are falsy
orElse(parsed, fallback) == IF ~IsDefined(parsed) \/ ValueOf(parsed) = 0 THEN fallback ELSE ValueOf(parsed)

getPaginationParams(query) ==
    LET page == orElse(parseInt(query.page), 1)
        limit == orElse(parseInt(query.limit), 10) IN
    [page |-> page, limit |-> limit, skip |-> (page - 1) * limit]

\* a call getPaginationParams(req.query); the query and the value returned are kept
getPaginationParams_call(s, query) ==
    /\ Free(s)
    /\ reqs' = [reqs EXCEPT ![s] = [Idle EXCEPT !.op = "getPaginationParams", !.pc = "done",
                    !.data = Some([query |-> query, params |-> getPaginationParams(query)])]]
    /\ UNCHANGED <<dbVars, conflict>>

\* ------------------------------------------------------------ the router

\* calculateUserDevicesCost's sums over the rows of a user: the daily cost at
\* the rate, and the wattage
RECURSIVE sumCost(_, _)
sumCost(rows, costPerKWh) ==
    IF rows = {} THEN 0
    ELSE LET a == CHOOSE x \in rows : TRUE
             hours == IF catalog[assignments[a].systemDeviceId].deviceWorkAllDay THEN 24 ELSE assignments[a].userInputWorkTime IN
         calculateDeviceCost(assignments[a].chosenWatts, hours, costPerKWh) + sumCost(rows \ {a}, costPerKWh)

RECURSIVE sumWattage(_)
sumWattage(rows) == IF rows = {} THEN 0 ELSE LET a == CHOOSE x \in rows : TRUE IN assignments[a].chosenWatts + sumWattage(rows \ {a})

\* calculateUserDevicesCost: findMany({ userId }), the sums, the 200
calculateUserDevicesCost_start(hdr, costPerKWh) ==
    LET r == Begin("calculateUserDevicesCost", hdr, 0, Undefined)
        rate == IF IsDefined(costPerKWh) THEN safeParseNumber(Number(ValueOf(costPerKWh)), DefaultCostPerKWh) ELSE DefaultCostPerKWh
        rows == {a \in DOMAIN assignments : assignments[a].userId = r.userId} IN
    IF ~isAuthenticated(hdr).pass THEN Rejected("calculateUserDevicesCost", hdr)
    ELSE [formatResponse(r, 200, "Device costs calculated successfully") EXCEPT !.rate = rate,
              !.data = Some([totalDailyCost |-> sumCost(rows, rate), totalWattage |-> sumWattage(rows)])]

\* the GET routes on /home-devices/<segment> in the order router.get registers
\* them; a segment of a pattern that starts with a colon matches anything
Routes == <<[path |-> <<"home-devices", ":id">>, handler |-> "getUserHomeDeviceById"],
            [path |-> <<"home-devices", "calculate-cost">>, handler |-> "calculateUserDevicesCost"],
            [path |-> <<"home-devices", "recommendations">>, handler |-> "getRecommendedDevices"]>>

matchPath(pattern, path) == Len(pattern) = Len(path) /\ \A i \in 1..Len(pattern) : pattern[i] = ":id" \/ pattern[i] = path[i]

\* express hands the request to the first route whose pattern matches
route(path) == Routes[CHOOSE i \in 1..Len(Routes) : matchPath(Routes[i].path, path) /\ \A j \in 1..(i - 1) : ~matchPath(Routes[j].path, path)].handler

\* Number(req.params.id) as safeParseNumber reads it
paramNumber(seg) == CASE seg = "1" -> 1 [] seg = "2" -> 2 [] seg = "3" -> 3 [] OTHER -> NaN

\* GET /home-devices/<seg>: the route chosen, isAuthenticated and the handler up
\* to its answer or first step
getHomeDevicesPath(s, hdr, seg) ==
    /\ Free(s)
    /\ LET h == route(<<"home-devices", seg>>)
           r == CASE h = "getUserHomeDeviceById" -> getUserHomeDeviceById_start(hdr, safeParseNumber(paramNumber(seg), 0))
                  [] h = "calculateUserDevicesCost" -> calculateUserDevicesCost_start(hdr, Undefined)
                  [] h = "getRecommendedDevices" -> getRecommendedDevices_start(hdr) IN
       reqs' = [reqs EXCEPT ![s] = [r EXCEPT !.path = <<"home-devices", seg>>]]
    /\ UNCHANGED <<dbVars, conflict>>

\* ------------------------------------------------------------ initial states

\* a household in use: two registered users without devices, one admin, a
\* catalog of one all-day and one part-time entry with their uploaded images
InitHome ==
    /\ users = (1 :> NewUser("a@x", "pw", 5000000)) @@ (2 :> NewUser("b@x", "pw", 0))
    /\ admins = (1 :> [email |-> "root@x", password |-> hashPassword("pw")])
    /\ catalog = (1 :> [name |-> "fridge", img |-> Some(1), wattsOptions |-> <<150, 100>>, deviceWorkAllDay |-> TRUE])
                 @@ (2 :> [name |-> "lamp", img |-> Some(2), wattsOptions |-> <<60, 100>>, deviceWorkAllDay |-> FALSE])
    /\ assignments = <<>>
    /\ files = {1, 2}
    /\ seqs = [user |-> 3, admin |-> 2, device |-> 3, assignment |-> 1, file |-> 3]
    /\ issued = {generateToken(1, "user"), generateToken(2, "user"), generateToken(1, "admin")}
    /\ reqs = [s \in Slots |-> Idle]
    /\ conflict = FALSE

\* ------------------------------------------------------------------ inputs

UserTokens == {Bearer(t) : t \in {x \in issued : x.by = "user"}}
\* what a caller can put in the Authorization header
BrokenHeaders == {NoHeader, NoTokenPart, BadToken} \cup {Expired(t) : t \in issued}
DeviceParams == 0..MaxDevices
WattParams == {Undefined, Some(60), Some(100), Some(150)}
HourParams == {Undefined, Some(5)}
AssignmentParams == 0..MaxAssignments
RowInputs == (UserTokens \X AssignmentParams) \cup (BrokenHeaders \X {1})

\* -------------------------------------------------- one request at a time

\* the steps a request in slot s takes after it was accepted
HomeDeviceStep(s) ==
    \/ addHomeDeviceToUser_create(s)
    \/ addHomeDeviceToUser_userUpdate(s)
    \/ updateUserHomeDevice_update(s)
    \/ updateUserHomeDevice_userUpdate(s)
    \/ deleteUserHomeDevice_delete(s)
    \/ deleteUserHomeDevice_userUpdate(s)

Next ==
    \/ \E x \in ((UserTokens \X DeviceParams \X WattParams \X HourParams) \cup (BrokenHeaders \X {1} \X {Some(100)} \X {Undefined})) : Quiescent /\ addHomeDeviceToUser("r1", x[1], x[2], x[3], x[4])
    \/ \E x \in RowInputs : Quiescent /\ getUserHomeDeviceById("r1", x[1], x[2])
    \/ \E x \in ((UserTokens \X AssignmentParams \X WattParams \X HourParams) \cup (BrokenHeaders \X {1} \X {Some(100)} \X {Undefined})) : Quiescent /\ updateUserHomeDevice("r1", x[1], x[2], x[3], x[4])
    \/ \E x \in RowInputs : Quiescent /\ deleteUserHomeDevice("r1", x[1], x[2])
    \/ HomeDeviceStep("r1")
    \/ Respond("r1")

Spec == InitHome /\ [][Next]_vars

\* ------------------------------- accounts, the admin gate and the catalog

\* any header a caller can send: broken ones, and every token ever issued
AnyHeaders == BrokenHeaders \cup {Bearer(t) : t \in issued}
\* the token of user 1
RaceToken == {Bearer(generateToken(1, "user"))}
\* one user's valid requests: the rejections are those of Spec
RaceWatts == {Some(100), Some(150)}
RaceRows == 1..MaxAssignments
AdminTokens == {Bearer(t) : t \in {x \in issued : x.by = "admin"}}

\* one request at a time on the account routes and the admin routes
NextAdmin ==
    \/ \E e \in ({Undefined, Some("a@x"), Some("c@x")}) : Quiescent /\ registerUser("r1", e, Some("pw"), 0, 0, 0)
    \/ \E e \in ({Undefined, Some("a@x"), Some("c@x")}), p \in ({Some("pw"), Some("guess")}) : Quiescent /\ loginUser("r1", e, p)
    \/ \E e \in ({Undefined, Some("root@x"), Some("ops@x")}) : Quiescent /\ createAdmin("r1", e, Some("pw"))
    \/ createAdmin_create("r1")
    \/ \E e \in ({Undefined, Some("root@x"), Some("ops@x")}), p \in ({Some("pw"), Some("guess")}) : Quiescent /\ loginAdmin("r1", e, p)
    \/ \E h \in AnyHeaders : Quiescent /\ getAdmin("r1", h)
    \/ \E h \in AnyHeaders, f \in BOOLEAN : Quiescent /\ createSystemDevice("r1", h, Some("tv"), Some(<<100>>), "true", f)
    \/ createSystemDevice_create("r1")
    \/ \E h \in AnyHeaders : Quiescent /\ updateSystemDevice("r1", h, 1, Some("freezer"), Undefined, Undefined, FALSE)
    \/ updateSystemDevice_update("r1")
    \/ \E h \in AnyHeaders : Quiescent /\ deleteSystemDevice("r1", h, 2)
    \/ deleteSystemDevice_count("r1")
    \/ deleteSystemDevice_delete("r1")
    \/ Respond("r1")

SpecAdmin == InitHome /\ [][NextAdmin]_vars

\* one request at a time on the catalog routes and on the assignment routes
\* that add and remove references to catalog rows
NextCatalog ==
    \/ \E h \in AdminTokens, n \in ({Undefined, Some("fridge"), Some("tv")}), w \in ({Undefined, Some(<<100, NaN>>)}), f \in BOOLEAN : Quiescent /\ createSystemDevice("r1", h, n, w, "true", f)
    \/ createSystemDevice_create("r1")
    \/ \E h \in AdminTokens, i \in DeviceParams, f \in BOOLEAN : Quiescent /\ updateSystemDevice("r1", h, i, Undefined, Undefined, Some("false"), f)
    \/ updateSystemDevice_update("r1")
    \/ \E h \in AdminTokens, i \in DeviceParams : Quiescent /\ deleteSystemDevice("r1", h, i)
    \/ deleteSystemDevice_count("r1")
    \/ deleteSystemDevice_delete("r1")
    \/ \E h \in RaceToken, d \in 1..2 : Quiescent /\ addHomeDeviceToUser("r1", h, d, Some(100), Undefined)
    \/ addHomeDeviceToUser_create("r1")
    \/ addHomeDeviceToUser_userUpdate("r1")
    \/ \E h \in RaceToken, i \in AssignmentParams : Quiescent /\ deleteUserHomeDevice("r1", h, i)
    \/ deleteUserHomeDevice_delete("r1")
    \/ deleteUserHomeDevice_userUpdate("r1")
    \/ Respond("r1")

SpecCatalog == InitHome /\ [][NextCatalog]_vars

\* ------------------- the all-day flag changes under the assignments

\* the deviceWorkAllDay an admin sends
FlagParams == {Some("true"), Some("false")}

\* one request at a time: user 1 adds and updates assignments with and
\* without work hours, the admin sets the all-day flag of catalog entries
NextFlag ==
    \/ \E h \in RaceToken, d \in DOMAIN catalog, t \in HourParams : Quiescent /\ addHomeDeviceToUser("r1", h, d, Some(100), t)
    \/ addHomeDeviceToUser_create("r1")
    \/ addHomeDeviceToUser_userUpdate("r1")
    \/ \E h \in RaceToken, i \in RaceRows, w \in {Undefined, Some(150)}, t \in HourParams : Quiescent /\ updateUserHomeDevice("r1", h, i, w, t)
    \/ updateUserHomeDevice_update("r1")
    \/ updateUserHomeDevice_userUpdate("r1")
    \/ \E h \in AdminTokens, i \in DOMAIN catalog, f \in FlagParams : Quiescent /\ updateSystemDevice("r1", h, i, Undefined, Undefined, f, FALSE)
    \/ updateSystemDevice_update("r1")
    \/ Respond("r1")

SpecFlag == InitHome /\ [][NextFlag]_vars

\* ------------------- the ledger under the other operations


\* one request at a time: user 1 adds assignments; users register and update
\* their accounts; the admin creates entries and sets the all-day flag
NextLedger ==
    \/ \E h \in RaceToken, d \in 1..2 : Quiescent /\ addHomeDeviceToUser("r1", h, d, Some(100), Undefined)
    \/ addHomeDeviceToUser_create("r1")
    \/ addHomeDeviceToUser_userUpdate("r1")
    \/ \E m \in {0, 700} : Quiescent /\ registerUser("r1", Some("c@x"), Some("pw"), 0, m, 0)
    \/ \E h \in RaceToken, x \in ({<<Undefined, Undefined, Undefined>>, <<Some(700), Undefined, Undefined>>, <<Undefined, Some(700), Undefined>>, <<Undefined, Undefined, Some(700)>>}) : Quiescent /\ updateUser("r1", h, x[1], x[2], x[3])
    \/ \E h \in RaceToken, b \in {Undefined, Some(700)} : Quiescent /\ updateUserBudget("r1", h, b)
    \/ \E h \in AdminTokens : Quiescent /\ createSystemDevice("r1", h, Some("tv"), Some(<<100>>), "true", TRUE)
    \/ createSystemDevice_create("r1")
    \/ \E h \in AdminTokens, i \in 1..2, f \in FlagParams : Quiescent /\ updateSystemDevice("r1", h, i, Undefined, Undefined, f, FALSE)
    \/ updateSystemDevice_update("r1")
    \/ Respond("r1")

SpecLedger == InitHome /\ [][NextLedger]_vars

\* ------------------- calls of the pure functions of utils.js


\* two calls side by side
NextCost ==
    \/ \E s \in Slots, w \in ({0, 60, 100, 150}), h \in ({0, 5, 8, 24}), q \in ({Undefined, Some(50), Some(68), Some(100)}) : calculateDeviceCost_call(s, w, h, q)
    \/ \E s \in Slots : Respond(s)

SpecCost == InitHome /\ [][NextCost]_vars

\* ------------------- the GET routes under /home-devices


\* one request at a time: user 1 adds assignments, and either user asks for a
\* path under /home-devices
NextRouter ==
    \/ \E h \in RaceToken, d \in DOMAIN catalog, w \in RaceWatts, t \in HourParams : Quiescent /\ addHomeDeviceToUser("r1", h, d, w, t)
    \/ addHomeDeviceToUser_create("r1")
    \/ addHomeDeviceToUser_userUpdate("r1")
    \/ \E h \in UserTokens \cup {NoHeader}, seg \in ({"calculate-cost", "recommendations", "1", "2"}) : Quiescent /\ getHomeDevicesPath("r1", h, seg)
    \/ Respond("r1")

SpecRouter == InitHome /\ [][NextRouter]_vars

\* ------------------- pagination of the list routes

\* the values ?page= and ?limit= are sent with: absent, empty, zero, positive,
\* negative, signed, and with letters
QueryValues == {Undefined, Some(<<>>), Some(<<"0">>), Some(<<"1">>), Some(<<"2">>), Some(<<"1", "0">>), Some(<<"-", "1">>), Some(<<"-", "2">>),
                Some(<<"+", "3">>), Some(<<"a", "b", "c">>), Some(<<"2", "x">>), Some(<<"1", ".", "5">>)}

NextPage ==
    \/ \E p \in QueryValues, l \in QueryValues : Quiescent /\ getPaginationParams_call("r1", [page |-> p, limit |-> l])
    \/ Respond("r1")

SpecPage == InitHome /\ [][NextPage]_vars

\* ------------------- accounts with assignments

\* one request at a time: the two users add and remove assignments and delete
\* their accounts
NextAccount ==
    \/ \E h \in UserTokens \cup {NoHeader}, d \in DOMAIN catalog : Quiescent /\ addHomeDeviceToUser("r1", h, d, Some(100), Undefined)
    \/ addHomeDeviceToUser_create("r1")
    \/ addHomeDeviceToUser_userUpdate("r1")
    \/ \E h \in UserTokens, i \in RaceRows : Quiescent /\ deleteUserHomeDevice("r1", h, i)
    \/ deleteUserHomeDevice_delete("r1")
    \/ deleteUserHomeDevice_userUpdate("r1")
    \/ \E h \in UserTokens \cup {NoHeader} : Quiescent /\ deleteUser("r1", h)
    \/ Respond("r1")

SpecAccount == InitHome /\ [][NextAccount]_vars

\* ------------------- an admin's token on the user routes

\* one request at a time: user 1 adds assignments, and the token loginAdmin
\* issued is sent to the /user and /home-devices routes
NextAdminToken ==
    \/ \E h \in RaceToken \cup AdminTokens, d \in DOMAIN catalog, w \in RaceWatts : Quiescent /\ addHomeDeviceToUser("r1", h, d, w, Undefined)
    \/ \E h \in AdminTokens, i \in RaceRows : Quiescent /\ getUserHomeDeviceById("r1", h, i)
    \/ \E h \in AdminTokens, i \in RaceRows, w \in RaceWatts : Quiescent /\ updateUserHomeDevice("r1", h, i, w, Undefined)
    \/ \E h \in AdminTokens, i \in RaceRows : Quiescent /\ deleteUserHomeDevice("r1", h, i)
    \/ \E h \in AdminTokens : Quiescent /\ getUser("r1", h)
    \/ \E h \in AdminTokens, b \in {Undefined, Some(700)} : Quiescent /\ updateUser("r1", h, b, Undefined, Undefined)
    \/ \E h \in AdminTokens : Quiescent /\ deleteUser("r1", h)
    \/ HomeDeviceStep("r1")
    \/ Respond("r1")

SpecAdminToken == InitHome /\ [][NextAdminToken]_vars

\* ------------------- the catalog's options change under the assignments

\* the option lists an admin sends: one that keeps 100, one that drops it
OptionLists == {Some(<<100, 150>>), Some(<<60>>)}

\* one request at a time: user 1 adds and updates assignments, the admin
\* creates entries and replaces the options of existing ones
NextOptions ==
    \/ \E h \in RaceToken, d \in DOMAIN catalog, w \in WattParams : Quiescent /\ addHomeDeviceToUser("r1", h, d, w, Undefined)
    \/ addHomeDeviceToUser_create("r1")
    \/ addHomeDeviceToUser_userUpdate("r1")
    \/ \E h \in RaceToken, i \in RaceRows, w \in WattParams : Quiescent /\ updateUserHomeDevice("r1", h, i, w, Undefined)
    \/ updateUserHomeDevice_update("r1")
    \/ updateUserHomeDevice_userUpdate("r1")
    \/ \E h \in AdminTokens, w \in OptionLists : Quiescent /\ createSystemDevice("r1", h, Some("tv"), w, "false", TRUE)
    \/ createSystemDevice_create("r1")
    \/ \E h \in AdminTokens, i \in DOMAIN catalog, w \in OptionLists : Quiescent /\ updateSystemDevice("r1", h, i, Undefined, w, Undefined, FALSE)
    \/ updateSystemDevice_update("r1")
    \/ Respond("r1")

SpecOptions == InitHome /\ [][NextOptions]_vars

\* ------------------- a catalog delete in flight with assignment requests

\* two requests in flight: the admin deletes catalog rows while user 1 adds and
\* removes assignments
NextCatalogRace ==
    \/ \E s \in Slots, h \in AdminTokens, i \in DOMAIN catalog : deleteSystemDevice(s, h, i)
    \/ \E s \in Slots : deleteSystemDevice_count(s)
    \/ \E s \in Slots : deleteSystemDevice_delete(s)
    \/ \E s \in Slots, h \in RaceToken, d \in 1..2 : addHomeDeviceToUser(s, h, d, Some(100), Undefined)
    \/ \E s \in Slots : addHomeDeviceToUser_create(s)
    \/ \E s \in Slots : addHomeDeviceToUser_userUpdate(s)
    \/ \E s \in Slots, h \in RaceToken, i \in RaceRows : deleteUserHomeDevice(s, h, i)
    \/ \E s \in Slots : deleteUserHomeDevice_delete(s)
    \/ \E s \in Slots : deleteUserHomeDevice_userUpdate(s)
    \/ \E s \in Slots : Respond(s)

SpecCatalogRace == InitHome /\ [][NextCatalogRace]_vars

\* ------------------------------------------- the recommendation requests

\* what the model writes: a list of deviceIds (known or not), with no, one or
\* two code-fence markers inside its strings, or something else
Payloads == {[kind |-> "list", ids |-> <<1>>, markers |-> 0], [kind |-> "list", ids |-> <<2, 9>>, markers |-> 0],
             [kind |-> "list", ids |-> <<1>>, markers |-> 1], [kind |-> "list", ids |-> <<1>>, markers |-> 2],
             [kind |-> "notList", ids |-> <<>>, markers |-> 0], [kind |-> "missing", ids |-> <<>>, markers |-> 0]}
\* the payload as it is, or in a code fence with or without the json tag
Fenced(text, tagged) == <<Tok("fence")>> \o (IF tagged THEN <<Tok("json")>> ELSE <<>>) \o <<Tok("ws")>> \o text \o <<Tok("ws"), Tok("fence")>>
AIAnswers == {AICallFails} \cup {AIText(x) : x \in ({JSONstringify(p) : p \in Payloads} \cup {Fenced(JSONstringify(p), b) : p \in Payloads, b \in BOOLEAN} \cup {<<Tok("prose")>>, <<>>})}

\* the household of InitHome after updateUserBudget calls
\* the catalog of two entries, or one of five, of which more than three can be
\* within a budget
InitRecommend ==
    /\ \E b \in ({0, 979200, 1000000, 1440000, 4896000, 5000000, 8000000}) : users = (1 :> NewUser("a@x", "pw", b)) @@ (2 :> NewUser("b@x", "pw", 0))
    /\ admins = (1 :> [email |-> "root@x", password |-> hashPassword("pw")])
    /\ \E n \in {2, 5} :
          /\ catalog = [id \in 1..n |-> [name |-> <<"fridge", "lamp", "heater", "fan", "tv">>[id], img |-> Some(id),
                                            wattsOptions |-> <<(<<150, 100>>), (<<60, 100>>), (<<2000>>), (<<40>>), (<<80, 50>>)>>[id],
                                            deviceWorkAllDay |-> id \in {1, 3}]]
          /\ files = 1..n
          /\ seqs = [user |-> 3, admin |-> 2, device |-> n + 1, assignment |-> 1, file |-> n + 1]
    /\ assignments = <<>>
    /\ issued = {generateToken(1, "user"), generateToken(2, "user"), generateToken(1, "admin")}
    /\ reqs = [s \in Slots |-> Idle]
    /\ conflict = FALSE

\* one request at a time: recommendations, and the adds that use up budget
NextRecommend ==
    \/ \E h \in RaceToken : Quiescent /\ getRecommendedDevices("r1", h)
    \/ getRecommendedDevices_findMany("r1")
    \/ \E h \in RaceToken, q \in ({Undefined, Some("0.5"), Some("1"), Some(""), Some("abc")}) : Quiescent /\ getAIDeviceRecommendations("r1", h, q)
    \/ \E ok \in BOOLEAN : getAIRecommendations_available("r1", ok)
    \/ \E a \in AIAnswers : getAIRecommendations_generate("r1", a)
    \/ getFallbackRecommendations("r1")
    \/ getFallbackRecommendations_findMany("r1")
    \/ \E h \in RaceToken, d \in ({1, 9}), ok \in BOOLEAN : Quiescent /\ getDeviceSpecificTips("r1", h, d, ok)
    \/ \E a \in AIAnswers : getDeviceEnergyTips_generate("r1", a)
    \/ \E h \in RaceToken : Quiescent /\ addHomeDeviceToUser("r1", h, 1, Some(100), Undefined)
    \/ addHomeDeviceToUser_create("r1")
    \/ addHomeDeviceToUser_userUpdate("r1")
    \/ Respond("r1")

SpecRecommend == InitRecommend /\ [][NextRecommend]_vars

\* an add, and then the delete of the row it made while the add's answer is
\* still held: nothing else is sent in between. An answered add that is not
\* deleted stays, so that the next round starts from other aggregates
NextRoundTrip ==
    \/ \E h \in RaceToken, d \in DOMAIN catalog, w \in WattParams, t \in HourParams : Quiescent /\ Free("r2") /\ addHomeDeviceToUser("r1", h, d, w, t)
    \/ \E h \in RaceToken :
           /\ reqs["r1"].op = "addHomeDeviceToUser" /\ reqs["r1"].pc = "done" /\ reqs["r1"].status = 201
           /\ deleteUserHomeDevice("r2", h, ValueOf(reqs["r1"].data))
    \/ addHomeDeviceToUser_create("r1")
    \/ addHomeDeviceToUser_userUpdate("r1")
    \/ deleteUserHomeDevice_delete("r2")
    \/ deleteUserHomeDevice_userUpdate("r2")
    \/ Quiescent /\ Respond("r1")
    \/ Respond("r2")

SpecRoundTrip == InitHome /\ [][NextRoundTrip]_vars

\* two requests of one user side by side, with no write between them: one is
\* answered by the AI with a payload as it is, the other with any text
NextFence ==
    \/ \E s \in Slots, h \in RaceToken : getAIDeviceRecommendations(s, h, Undefined)
    \/ \E s \in Slots, ok \in BOOLEAN : getAIRecommendations_available(s, ok)
    \/ \E p \in Payloads : getAIRecommendations_generate("r1", AIText(JSONstringify(p)))
    \/ \E a \in AIAnswers : getAIRecommendations_generate("r2", a)
    \/ \E s \in Slots : getFallbackRecommendations(s)
    \/ \E s \in Slots : getFallbackRecommendations_findMany(s)
    \/ \E s \in Slots : Respond(s)

SpecFence == InitRecommend /\ [][NextFence]_vars

\* the steps the server takes by itself once a request is in: every
\* continuation after a database await. The settling of model.generateContent
\* is the collaborator's step and is not among them: no timer is set around it
ServerStep ==
    \/ getRecommendedDevices_findMany("r1")
    \/ \E ok \in BOOLEAN : getAIRecommendations_available("r1", ok)
    \/ getFallbackRecommendations("r1")
    \/ getFallbackRecommendations_findMany("r1")
    \/ addHomeDeviceToUser_create("r1")
    \/ addHomeDeviceToUser_userUpdate("r1")

\* the same requests, with the server's own steps always taken in the end
SpecRecommendLive == InitRecommend /\ [][NextRecommend]_vars /\ WF_vars(ServerStep)

\* ------------------------------------- the aggregate write can fail

\* a request whose aggregate write was refused has been answered
Faulted == \E s \in Slots : reqs[s].pc = "done" /\ reqs[s].message = "Transaction error"

\* Every refused aggregate write leaves the aggregates one delta further from
\* the rows, without bound: a behaviour holds one such fault, and ends with it.
NextCrash ==
    \/ ~Faulted /\ Next
    \/ userUpdateFails("r1")

SpecCrash == InitHome /\ [][NextCrash]_vars

\* ------------------------------------------------- two requests at a time


\* Two requests racing on one row can leave the aggregates off by a delta, and
\* every further race adds to the drift: once a race on one row has happened
\* (conflict), the requests in flight finish and no new one is taken.
NextRace ==
    \/ \E s \in Slots, h \in RaceToken, d \in DOMAIN catalog, w \in RaceWatts : ~conflict /\ addHomeDeviceToUser(s, h, d, w, Undefined)
    \/ \E s \in Slots, h \in RaceToken, i \in RaceRows, w \in RaceWatts \cup {Undefined} : ~conflict /\ updateUserHomeDevice(s, h, i, w, Undefined)
    \/ \E s \in Slots, h \in RaceToken, i \in RaceRows : ~conflict /\ deleteUserHomeDevice(s, h, i)
    \/ \E s \in Slots : HomeDeviceStep(s)
    \/ \E s \in Slots : Respond(s)

SpecRace == InitHome /\ [][NextRace]_vars

\* ------------------------------------------------------------- the ledger

\* the assignments of user u whose catalog entry is all-day
AllDayAssignments(u) == {a \in DOMAIN assignments : assignments[a].userId = u /\ catalog[assignments[a].systemDeviceId].deviceWorkAllDay}

RECURSIVE SumWatts(_)
SumWatts(S) == IF S = {} THEN 0 ELSE LET a == CHOOSE x \in S : TRUE IN assignments[a].chosenWatts + SumWatts(S \ {a})

\* cost(w, 24) at the default rate 0.68, in 1/100000 units: w * 24 / 1000 * 0.68
Cost24(w) == w * 24 * 68

LedgerHolds(u) ==
    /\ users[u].totalWattage = SumWatts(AllDayAssignments(u))
    /\ users[u].minBudget = Cost24(SumWatts(AllDayAssignments(u)))

C3_InvalidWattsAnswered400 ==
    \A s \in Slots :
        LET r == reqs[s] IN
        (/\ r.op = "addHomeDeviceToUser" /\ r.pc = "done" /\ r.userId # 0
         /\ r.target \in DOMAIN catalog /\ IsDefined(r.watts)
         /\ \A i \in 1..Len(catalog[r.target].wattsOptions) : catalog[r.target].wattsOptions[i] # ValueOf(r.watts))
        => (r.status = 400 /\ r.wrote = {})

\* C5: get / update / delete of an assignment id that does not exist or belongs
\* to another user is answered 404, and nothing was written.
C5_NotOwnedAnswered404 ==
    \A s \in Slots :
        LET r == reqs[s] IN
        (/\ r.op \in {"getUserHomeDeviceById", "updateUserHomeDevice", "deleteUserHomeDevice"}
         /\ r.pc = "done" /\ r.userId # 0 /\ r.target > 0 /\ ~r.owned)
        => (r.status = 404 /\ r.wrote = {})

\* C2: the assignment write and the aggregate write of one request are all or
\* nothing: a request that ended in an error has left no write committed.
C2_FailedRequestWroteNothing ==
    \A s \in Slots :
        (reqs[s].pc = "done" /\ reqs[s].status >= 500) => reqs[s].wrote = {}

C7_BrokenTokenAnswered401 ==
    \A s \in Slots :
        reqs[s].token.kind \in {"none", "noToken", "bad", "expired"}
        => (reqs[s].pc = "done" /\ reqs[s].status = 401 /\ reqs[s].userId = 0 /\ reqs[s].wrote = {})

\* C6: a request on GET /admin or POST/PUT/DELETE /system-devices that carries
\* a token issued to a User is answered 403 and writes nothing.
C6_UserTokenStoppedAtAdminGate ==
    \A s \in Slots :
        (/\ reqs[s].op \in {"getAdmin", "createSystemDevice", "updateSystemDevice", "deleteSystemDevice"}
         /\ reqs[s].token.kind = "ok" /\ reqs[s].token.by = "user")
        => (reqs[s].pc = "done" /\ reqs[s].status = 403 /\ reqs[s].wrote = {})

\* every assignment's catalog row exists
NoDanglingAssignment == \A a \in DOMAIN assignments : assignments[a].systemDeviceId \in DOMAIN catalog

\* the step in which the deleteSystemDevice request of slot s counts the
\* assignments of a catalog row that an assignment references
CountsReferenced(s) ==
    /\ reqs[s].op = "deleteSystemDevice" /\ reqs[s].pc = "count" /\ reqs'[s].pc # "count"
    /\ \E a \in DOMAIN assignments : assignments[a].systemDeviceId = reqs[s].target

MonthlyCost(w, allDay, rate) == w * (IF allDay THEN 24 ELSE 8) * rate * 30

\* the catalog ids in a handler's list
ListedIds(s) == {ValueOf(reqs[s].avail)[i] : i \in 1..Len(ValueOf(reqs[s].avail))}

\* the caller's budget that is not yet used
Remaining(s) == users[reqs[s].userId].budget - users[reqs[s].userId].minBudget

\* the statement of C10 as worded, with cost at the default rate 0.68
C10_FilterAtDefaultRate ==
    \A s \in Slots :
        IsDefined(reqs[s].avail) =>
            \A d \in DOMAIN catalog :
                d \in ListedIds(s) <=> \E i \in 1..Len(catalog[d].wattsOptions) : MonthlyCost(catalog[d].wattsOptions[i], catalog[d].deviceWorkAllDay, 68) <= Remaining(s)

\* C10: a catalog entry is in the list of getRecommendedDevices, in the
\* available list of getAIRecommendations and in the uncut list of
\* getFallbackRecommendations if and only if one of its wattage options w has
\* cost(w, 24 if all-day else 8) * 30 <= budget - minBudget, the cost taken at
\* the rate of the request (0.68 in getRecommendedDevices and when no
\* costPerKWh is sent; no entry when costPerKWh is not a number).
C10_FilterAtRequestRate ==
    \A s \in Slots :
        IsDefined(reqs[s].avail) =>
            \A d \in DOMAIN catalog :
                d \in ListedIds(s) <=>
                    /\ reqs[s].rate # NaN
                    /\ \E i \in 1..Len(catalog[d].wattsOptions) : MonthlyCost(catalog[d].wattsOptions[i], catalog[d].deviceWorkAllDay, reqs[s].rate) <= Remaining(s)

\* the available list of an AI request at the rate 1.00 holds the lamp and not
\* the fridge, and what is left of the budget is exactly the monthly cost of
\* the lamp's 60 W option at that rate
C10_Witness ==
    \E s \in Slots :
        /\ reqs[s].op = "getAIDeviceRecommendations" /\ reqs[s].pc = "generate"
        /\ reqs[s].rate = 100 /\ Remaining(s) = MonthlyCost(60, FALSE, 100)
        /\ IsDefined(reqs[s].avail) /\ ListedIds(s) = {2}

\* the wattage options of catalog entry d whose monthly cost at the rate fits
\* what is left of the caller's budget
ViableOptions(s, d, rate) == {catalog[d].wattsOptions[i] : i \in {j \in 1..Len(catalog[d].wattsOptions) : MonthlyCost(catalog[d].wattsOptions[j], catalog[d].deviceWorkAllDay, rate) <= Remaining(s)}}

\* C11: the wattage reported for an affordable catalog entry (affordableWattage
\* in the AI path's available list, recommendedWattage in the fallback) is one
\* of the entry's wattsOptions, is the smallest option whose monthly cost is
\* <= remaining (at the request's rate, and at 0.68 when the entry is
\* affordable at 0.68), and the monthly cost reported with it is <= remaining.
C11_RepresentativeWattageIsMinimum ==
    \A s \in Slots :
        \A k \in 1..Len(reqs[s].report) :
            LET rec == reqs[s].report[k]
                d == rec.deviceId IN
            /\ rec.wattage \in ViableOptions(s, d, reqs[s].rate)
            /\ \A w \in ViableOptions(s, d, reqs[s].rate) \cup ViableOptions(s, d, 68) : rec.wattage <= w
            /\ rec.monthlyCost = MonthlyCost(rec.wattage, catalog[d].deviceWorkAllDay, reqs[s].rate)
            /\ rec.monthlyCost <= Remaining(s)

\* a fallback answer reports the fridge, both of whose options (150 W listed
\* first, 100 W) fit the budget, with the 100 W option
C11_Witness ==
    \E s \in Slots :
        /\ reqs[s].op = "getAIDeviceRecommendations" /\ reqs[s].pc = "done" /\ reqs[s].status = 200
        /\ \E k \in 1..Len(reqs[s].report) :
              /\ reqs[s].report[k].deviceId = 1 /\ reqs[s].report[k].wattage = 100
              /\ Cardinality(ViableOptions(s, 1, reqs[s].rate)) = 2

\* ---- C12
\* the texts that do not parse, and those that parse to a payload whose
\* deviceRecommendations is missing or is not a list
UnusableTexts ==
    {<<>>, <<Tok("prose")>>}
    \cup {JSONstringify(p) : p \in {q \in Payloads : q.kind # "list"}}
    \cup {Fenced(JSONstringify(p), b) : p \in {q \in Payloads : q.kind # "list"}, b \in BOOLEAN}

\* the catalog entries with an option within the remaining budget at the
\* request's rate (none when the rate is not a number), and those of them with fewer than three before them
AffordableIds(s) == {d \in DOMAIN catalog : reqs[s].rate # NaN /\ ViableOptions(s, d, reqs[s].rate) # {}}
FirstThree(s) == {d \in AffordableIds(s) : Cardinality({e \in AffordableIds(s) : e < d}) < 3}

\* C12: a request whose AI response does not parse, or parses to a payload
\* whose deviceRecommendations is missing or not a list, is answered 200 with
\* the first min(3, n) of the n affordable catalog entries, in catalog order
C12_UnusableTextFallsBack ==
    \A s \in Slots :
        (/\ reqs[s].op = "getAIDeviceRecommendations" /\ reqs[s].pc = "done"
         /\ reqs[s].settled = "text" /\ reqs[s].text \in UnusableTexts)
        => /\ reqs[s].status = 200 /\ reqs[s].raised = 0
           /\ IsDefined(reqs[s].data)
           /\ Len(ValueOf(reqs[s].data)) = Cardinality(FirstThree(s))
           /\ {ValueOf(reqs[s].data)[i] : i \in 1..Len(ValueOf(reqs[s].data))} = FirstThree(s)
           /\ \A i, j \in 1..Len(ValueOf(reqs[s].data)) : i < j => ValueOf(reqs[s].data)[i] < ValueOf(reqs[s].data)[j]

\* a payload without deviceRecommendations came back and four entries were
\* affordable: three are listed
C12_Witness ==
    \E s \in Slots :
        /\ reqs[s].op = "getAIDeviceRecommendations" /\ reqs[s].pc = "done"
        /\ reqs[s].settled = "text" /\ reqs[s].text = JSONstringify([kind |-> "missing", ids |-> <<>>, markers |-> 0])
        /\ Cardinality(AffordableIds(s)) = 4 /\ reqs[s].data = Some(<<1, 2, 4>>)

\* ---- C13
\* C13: an AI call that fails (rejected call, model that cannot be built,
\* unusable text) never makes GET /ai/recommendations or GET /ai/tips/:deviceId
\* answer an error status for an existing user and device, and the
\* recommendations are answered 200
C13_AIFailureRecovered ==
    \A s \in Slots :
        (/\ reqs[s].op \in {"getAIDeviceRecommendations", "getDeviceSpecificTips"} /\ reqs[s].pc = "done"
         /\ reqs[s].userId \in DOMAIN users
         /\ reqs[s].settled \in {"rejected", "noModel"} \/ (reqs[s].settled = "text" /\ reqs[s].text \in UnusableTexts))
        => /\ reqs[s].status < 400
           /\ reqs[s].op = "getAIDeviceRecommendations" => reqs[s].status = 200

\* ---- C14
\* C14: a recommendations request waiting for the AI call is answered in the
\* end, whether or not the call ever returns
C14_PendingCallEventuallyAnswered ==
    \A s \in Slots :
        (reqs[s].op = "getAIDeviceRecommendations" /\ reqs[s].pc = "generate")
            ~> (reqs[s].op = "getAIDeviceRecommendations" /\ reqs[s].pc = "done")

\* ---- C15
\* C15: a response that is a valid recommendation payload wrapped in a code
\* fence, with or without the json tag, is answered like the same payload
\* without the fence, whatever the payload's strings contain
C15_FenceIsTransparent ==
    \A s, u \in Slots :
        (/\ reqs[s].op = "getAIDeviceRecommendations" /\ reqs[s].pc = "done" /\ reqs[s].settled = "text"
         /\ reqs[u].op = "getAIDeviceRecommendations" /\ reqs[u].pc = "done" /\ reqs[u].settled = "text"
         /\ reqs[s].userId = reqs[u].userId /\ reqs[s].rate = reqs[u].rate
         /\ \E p \in Payloads : /\ p.kind = "list" /\ reqs[s].text = JSONstringify(p)
                                 /\ \E b \in BOOLEAN : reqs[u].text = Fenced(JSONstringify(p), b))
        => reqs[s].status = reqs[u].status /\ reqs[s].data = reqs[u].data

\* ---- C16
\* the add held in r1 made an all-day assignment
AllDayAdd == reqs["r1"].op = "addHomeDeviceToUser" /\ catalog[reqs["r1"].target].deviceWorkAllDay
\* the step that answers the request in slot s with status
Answers(s, status) == reqs[s].pc # "done" /\ reqs'[s].pc = "done" /\ reqs'[s].status = status
\* the user's aggregates move by dWatts and by the 24-hour cost of dWatts
Moved(u, dWatts) ==
    /\ users'[u].totalWattage = users[u].totalWattage + dWatts
    /\ users'[u].minBudget = users[u].minBudget + Cost24(dWatts)

C17_ChosenWattsIsAnOption ==
    \A a \in DOMAIN assignments :
        assignments[a].systemDeviceId \in DOMAIN catalog
            => Includes(catalog[assignments[a].systemDeviceId].wattsOptions, assignments[a].chosenWatts)

\* ---- C18
\* the table an account request writes to
AccountTable(op) == IF op = "registerUser" THEN users ELSE admins

\* C18: a registration of a user, or a creation of an admin, with an email
\* that a record of that kind already has is answered 409, and no second
\* record with that email exists
C18_DuplicateEmailAnswered409 ==
    /\ \A s \in Slots :
          (/\ reqs[s].op \in {"registerUser", "createAdmin"} /\ reqs[s].pc = "done"
           /\ IsDefined(reqs[s].email) /\ reqs[s].wrote = {}
           /\ findByEmail(AccountTable(reqs[s].op), ValueOf(reqs[s].email)) # {})
          => reqs[s].status = 409
    /\ \A i, j \in DOMAIN users : users[i].email = users[j].email => i = j
    /\ \A i, j \in DOMAIN admins : admins[i].email = admins[j].email => i = j

\* ---- C19
\* C19: the deletion of an account that owns assignments succeeds and takes
\* the assignments with it: no assignment references the deleted user
C19_AccountDeletedWithAssignments ==
    \A s \in Slots :
        (reqs[s].op = "deleteUser" /\ reqs[s].pc = "done" /\ reqs[s].token.kind = "ok" /\ reqs[s].linked)
        => /\ reqs[s].status = 204
           /\ reqs[s].userId \notin DOMAIN users
           /\ \A a \in DOMAIN assignments : assignments[a].userId # reqs[s].userId

\* ---- C20
\* an error outside every category: no statusCode, not a validation or token
\* error, not one of the database errors with a known code
Uncategorized(err) == err.statusCode = 0 /\ err.name \notin {"", "ValidationError", "JsonWebTokenError", "TokenExpiredError", "PrismaClientKnownRequestError"}

\* C20: a request that ended in an uncategorized error is answered 500 with a
\* generic message, never with the error's own message
C20_UncategorizedAnsweredGenerically ==
    \A s \in Slots :
        (reqs[s].pc = "done" /\ Uncategorized(reqs[s].thrown))
        => reqs[s].status = 500 /\ reqs[s].message # reqs[s].thrown.message

\* ---- C21
\* C21: an authenticated GET /home-devices/calculate-cost is served by
\* calculateUserDevicesCost and an authenticated GET
\* /home-devices/recommendations by getRecommendedDevices, not by the handler
\* of GET /home-devices/:id
C21_NamedViewsReachTheirHandlers ==
    \A s \in Slots :
        reqs[s].token.kind = "ok" =>
            /\ reqs[s].path = <<"home-devices", "calculate-cost">> => reqs[s].op = "calculateUserDevicesCost"
            /\ reqs[s].path = <<"home-devices", "recommendations">> => reqs[s].op = "getRecommendedDevices"

\* ---- C22
\* the arguments and the value of the call kept in slot s: the rate is 0.68 when
\* none was passed; values are in 1/100000 (watts * hours * hundredths / 1000)
CallWatts(s) == ValueOf(reqs[s].watts)
CallHours(s) == ValueOf(reqs[s].hours)
CallRate(s) == IF ValueOf(reqs[s].data).costPerKWh = <<>> THEN 68 ELSE ValueOf(reqs[s].data).costPerKWh[1]
CallCost(s) == ValueOf(reqs[s].data).cost
IsCall(s) == reqs[s].op = "calculateDeviceCost"

AllDayRow(a) == catalog[assignments[a].systemDeviceId].deviceWorkAllDay

C24_AllDayRowsHave24Hours ==
    \A a \in DOMAIN assignments :
        (assignments[a].systemDeviceId \in DOMAIN catalog /\ AllDayRow(a)) => assignments[a].userInputWorkTime = 24

\* ---- C25
\* C25: after two overlapping requests of one user on the same all-day
\* assignment (update with update, update with delete) have both finished, the
\* user's minBudget and totalWattage are the sums over the assignments that
\* exist
C25_LedgerAfterSameRowOverlap ==
    (conflict /\ \A s \in Slots : reqs[s].pc = "done" /\ reqs[s].status = 200) => \A u \in DOMAIN users : LedgerHolds(u)

\* ---- C26
\* the operations that are not the add, update or delete of an assignment
OtherOps == {"registerUser", "updateUser", "updateUserBudget", "createSystemDevice", "updateSystemDevice"}

\* C26: a step of registerUser, updateUser, updateUserBudget or of a catalog
\* create or update, taken where every user's minBudget and totalWattage are
\* the sums over the user's all-day assignments, leads to such a state
C26_LedgerKeptByOtherOperations ==
    [][((\E s \in Slots : reqs'[s] # reqs[s] /\ reqs'[s].op \in OtherOps) /\ \A u \in DOMAIN users : LedgerHolds(u))
          => \A u \in DOMAIN users' : LedgerHolds(u)']_vars

\* ---- C27
\* the request in slot s carries a token that loginAdmin issued
ByAdminToken(r) == r.token.kind = "ok" /\ r.token.by = "admin"

\* C27: a request on /user or /home-devices that carries an admin's token
\* changes no User row and no assignment, and is not answered with success
C27_AdminTokenNotAUserToken ==
    [][\A s \in Slots : ByAdminToken(reqs'[s]) =>
          /\ users' = users
          /\ assignments' = assignments
          /\ reqs'[s].status \notin {200, 201, 204}]_vars

\* ---- C28
\* the calls of getPaginationParams that returned
PageCalls == {s \in Slots : reqs[s].op = "getPaginationParams" /\ reqs[s].pc = "done"}

\* C28: for every query getPaginationParams returns page >= 1, limit >= 1 and
\* skip = (page - 1) * limit >= 0; an absent page is 1 and an absent limit 10
C28_PaginationInRange ==
    \A s \in PageCalls :
        LET q == ValueOf(reqs[s].data).query
            p == ValueOf(reqs[s].data).params IN
        /\ p.page >= 1 /\ p.limit >= 1
        /\ p.skip = (p.page - 1) * p.limit /\ p.skip >= 0
        /\ (~IsDefined(q.page) => p.page = 1)
        /\ (~IsDefined(q.limit) => p.limit = 10)

\* ---- C29
\* C29: once the requests have answered, every entry of the catalog has its
\* image file on the disk, whether the deletes and updates succeeded or failed
C29_SurvivingEntryKeepsImage ==
    Quiescent => \A d \in DOMAIN catalog : IsDefined(catalog[d].img) => ValueOf(catalog[d].img) \in files

\* ---- C30
\* the requests answered on the AI success path: the text parsed and its
\* deviceRecommendations is a list
AISuccess == {s \in Slots : /\ reqs[s].op = "getAIDeviceRecommendations" /\ reqs[s].pc = "done" /\ reqs[s].status = 200
                             /\ reqs[s].settled = "text" /\ IsDefined(parseRecommendations(reqs[s].text))}

\* C30: on the AI success path at most three recommendations are returned, and
\* the deviceId of each is a catalog entry in the caller's affordable set
C30_AIRecommendationsAffordable ==
    \A s \in AISuccess :
        /\ Len(ValueOf(reqs[s].data)) <= 3
        /\ \A i \in 1..Len(ValueOf(reqs[s].data)) : ValueOf(reqs[s].data)[i] \in AffordableIds(s)

====
